---- MODULE Spec2Model ----
(***************************************************************************)
(* DataSync QA Adapter: the token service (app/auth.py), the guard of the  *)
(* protected routes and the handlers behind it (app/main.py), the request  *)
(* schema of POST /sync (app/schemas.py), the engine loader with the       *)
(* engine it loads (datasync-mock/src/sync_engine.py), and the test runs.  *)
(*                                                                         *)
(* Time is counted in ticks of 1/TicksPerSecond second, so that the        *)
(* whole-second "exp" claim of a token and the sub-second clock that       *)
(* issues and verifies it are different things.                            *)
(*                                                                         *)
(* A handler is one step, except in SpecLoader, where GET /status is       *)
(* served by worker threads that interleave statement by statement.        *)
(***************************************************************************)
EXTENDS Integers, Sequences, FiniteSets, TLC

VARIABLES
    settings,       \* app.settings.settings: loaded once, read-only afterwards
    jwtLib,         \* which expiry rule the installed PyJWT applies
    now,            \* the wall clock (datetime.utcnow()), in ticks
    issued,         \* history: the tokens create_access_token returned, with their issue time
    last,           \* the last request handled: its number n, the request, the response,
                    \* and did, the calls the handler made while serving it
    importError,    \* "" if a fresh `import sync_engine` succeeds, else the class of the
                    \* exception it raises
    streams,        \* number of streamed test processes still running
    htmlcovExists,  \* whether the htmlcov directory exists on disk
    covXml,         \* coverage.xml on disk: absent, damaged, or a report with its line-rate
    mounts,         \* number of routes the application has mounted at /htmlcov
    sysPath,        \* sys.path: the module search path of the process
    sysModules,     \* whether "sync_engine" is in sys.modules
    engineFault,    \* "" if the installed engine's sync_all_tables returns, else the
                    \* class of the exception it raises
    runnerFiles,    \* which of the candidate ai_test_runner.py files exist on disk
    loaders,        \* the worker threads: where each one is inside GET /status
    stream,         \* one streamed test run, followed line by line
    aiRun           \* one run of tools/ai_test_runner.py main()

vars == <<settings, jwtLib, now, issued, last, importError, streams,
          htmlcovExists, covXml, mounts, sysPath, sysModules, engineFault,
          runnerFiles, loaders, stream, aiRun>>

-----------------------------------------------------------------------------
(* Bounds of the model *)

TicksPerSecond == 2
SlackTicks == 2
MaxRequests == 2
MaxTables == 2
MaxLines == 2
MaxItersBound == 2

(* Program constants *)

ACCESS_TOKEN_EXPIRE_HOURS == 8
SecondsPerHour == 3600
JWT_SECRET == "dev_secret_change_me"

TTLSeconds == ACCESS_TOKEN_EXPIRE_HOURS * SecondsPerHour
TTLTicks == TTLSeconds * TicksPerSecond
Horizon == TTLTicks + SlackTicks

-----------------------------------------------------------------------------
(* Optional values (Python's None) *)

None == [some |-> FALSE, v |-> ""]
Some(x) == [some |-> TRUE, v |-> x]

(* Settings *)

NoHash == [kind |-> "none", of |-> ""]
EmptyHash == [kind |-> "empty", of |-> ""]
MalformedHash == [kind |-> "malformed", of |-> ""]
BcryptHash(p) == [kind |-> "bcrypt", of |-> p]

Usernames == {"admin", "ops"}
Passwords == {"adminadmin", "hunter2", ""}

\* Table names are sequences of characters.
Name_kpi == <<"k", "p", "i">>
Name_space == <<"u", " ", "x">>
Name_semi == <<"u", ";">>
Name_tab == <<"u", "\t", "x">>
TableNames == {Name_kpi, Name_space, Name_semi, Name_tab}

DefaultSettings ==
    [ADMIN_USERNAME |-> "admin",
     ADMIN_PASSWORD_HASH |-> NoHash,
     ADMIN_PASSWORD_PLAIN |-> Some("adminadmin"),
     DASHBOARD_ENABLE_DEV |-> TRUE,
     ALLOWED_TABLES |-> {}]

\* Configurations that differ in the credential settings.
CredentialSettings ==
    {[DefaultSettings EXCEPT !.ADMIN_USERNAME = u,
                             !.ADMIN_PASSWORD_HASH = h,
                             !.ADMIN_PASSWORD_PLAIN = p] :
        u \in Usernames,
        h \in {NoHash, EmptyHash, MalformedHash, BcryptHash("hunter2")},
        p \in {None, Some("adminadmin"), Some("")}}

\* Configurations that differ in the token-issuing settings.
AuthSettings ==
    {DefaultSettings,
     [DefaultSettings EXCEPT !.ADMIN_USERNAME = "ops"],
     [DefaultSettings EXCEPT !.DASHBOARD_ENABLE_DEV = FALSE]}

\* Configurations that differ in the whitelist.
SyncSettings ==
    {[DefaultSettings EXCEPT !.ALLOWED_TABLES = w] :
        w \in {{}, {Name_kpi}, {Name_kpi, Name_tab}}}

-----------------------------------------------------------------------------
(* Tokens: PyJWT's HS256 encode and decode as app/auth.py uses them *)

NoSub == "<no sub>"
NoExp == -1
Keys == {JWT_SECRET, "another_secret"}

\* The HMAC over the payload: it names the key and the exact payload signed.
HS256(key, sub, exp) == [key |-> key, sub |-> sub, exp |-> exp]

\* jwt.encode(payload, key): a datetime "exp" is written as whole epoch seconds.
ToEpochSeconds(ticks) == ticks \div TicksPerSecond

jwt_encode(sub, expTicks, key) ==
    LET e == ToEpochSeconds(expTicks)
    IN  [form |-> "jwt", sub |-> sub, exp |-> e, sig |-> HS256(key, sub, e)]

Garbage == [form |-> "garbage", sub |-> NoSub, exp |-> NoExp,
            sig |-> HS256("", NoSub, NoExp)]

\* The expiry test of jwt.decode at time t (ticks), for the installed library.
Expired(exp, t) ==
    IF jwtLib = "current"
    THEN exp * TicksPerSecond <= t            \* exp <= now, now a float timestamp
    ELSE exp < ToEpochSeconds(t)              \* exp < now, now in whole seconds

\* jwt.decode(token, key, algorithms=["HS256"]) at time t: the payload, or the
\* class of the exception raised.
jwt_decode(token, key, t) ==
    IF token.form # "jwt"
    THEN [ok |-> FALSE, exc |-> "DecodeError"]
    ELSE IF token.sig # HS256(key, token.sub, token.exp)
    THEN [ok |-> FALSE, exc |-> "InvalidSignatureError"]
    ELSE IF token.exp # NoExp /\ Expired(token.exp, t)
    THEN [ok |-> FALSE, exc |-> "ExpiredSignatureError"]
    ELSE [ok |-> TRUE, exc |-> "", sub |-> token.sub]

\* A variant that signs with a key other than the one require_auth checks.
create_access_token_other_key(username, t) ==
    jwt_encode(username, t + TTLTicks, "another_secret")

create_access_token(username, t) ==
    jwt_encode(username, t + TTLTicks, JWT_SECRET)

\* HTTPException(status_code, detail)
HTTPError(status, detail) ==
    [ok |-> FALSE, status |-> status, detail |-> detail]

\* The exception, if any, that the try block of require_auth raises.
AuthFailure(token, t) ==
    LET d == jwt_decode(token, JWT_SECRET, t)
    IN  IF ~d.ok THEN d.exc
        ELSE IF d.sub = NoSub THEN "KeyError"
        ELSE ""

\* A variant whose except clause names the library's errors only.
require_auth_narrow_except(token, t) ==
    LET exc == AuthFailure(token, t)
    IN  IF exc = "KeyError" THEN HTTPError(500, "Internal Server Error")
        ELSE IF exc # "" THEN HTTPError(401, "Invalid or expired token")
        ELSE [ok |-> TRUE, value |-> token.sub]

\* A variant that trusts the payload without checking the signature.
require_auth_unverified(token, t) ==
    IF token.form = "jwt" /\ token.sub # NoSub
          /\ ~(token.exp # NoExp /\ Expired(token.exp, t))
    THEN [ok |-> TRUE, value |-> token.sub]
    ELSE HTTPError(401, "Invalid or expired token")

\* A variant that keeps one session: only the newest issued token is valid.
require_auth_single_session(token, t) ==
    IF AuthFailure(token, t) = ""
          /\ \A i \in issued : i.tok = token => \A j \in issued : j.at <= i.at
    THEN [ok |-> TRUE, value |-> token.sub]
    ELSE HTTPError(401, "Invalid or expired token")

require_auth(token, t) ==
    IF AuthFailure(token, t) # ""
    THEN HTTPError(401, "Invalid or expired token")
    ELSE [ok |-> TRUE, value |-> token.sub]

\* The Authorization header of a request.
NoHeader == [hdr |-> FALSE, scheme |-> "", tok |-> Garbage]
Bearer(tok) == [hdr |-> TRUE, scheme |-> "bearer", tok |-> tok]
Basic(tok) == [hdr |-> TRUE, scheme |-> "basic", tok |-> tok]

\* OAuth2PasswordBearer(tokenUrl="/auth/login"): the bearer credential, or 401.
oauth2_scheme(auth) ==
    IF ~auth.hdr \/ auth.scheme # "bearer"
    THEN HTTPError(401, "Not authenticated")
    ELSE [ok |-> TRUE, value |-> auth.tok]

\* Depends(require_auth) with its sub-dependency oauth2_scheme.
Guard(auth, t) ==
    LET s == oauth2_scheme(auth)
    IN  IF ~s.ok THEN s ELSE require_auth(s.value, t)

-----------------------------------------------------------------------------
(* Credentials *)

verify_password(plain, hashed) ==
    IF hashed.kind # "bcrypt" THEN FALSE      \* bcrypt.verify raised
    ELSE hashed.of = plain

\* A variant that falls back to the plaintext setting when the hash rejects.
authenticate_user_fallthrough(username, password) ==
    /\ username = settings.ADMIN_USERNAME
    /\ \/ /\ settings.ADMIN_PASSWORD_HASH.kind \notin {"none", "empty"}
          /\ verify_password(password, settings.ADMIN_PASSWORD_HASH)
       \/ /\ settings.ADMIN_PASSWORD_PLAIN.some
          /\ password = settings.ADMIN_PASSWORD_PLAIN.v

\* A variant that forgets to compare the username.
authenticate_user_any_user(username, password) ==
    IF settings.ADMIN_PASSWORD_HASH.kind \notin {"none", "empty"}
    THEN verify_password(password, settings.ADMIN_PASSWORD_HASH)
    ELSE settings.ADMIN_PASSWORD_PLAIN.some
            /\ password = settings.ADMIN_PASSWORD_PLAIN.v

authenticate_user(username, password) ==
    IF username # settings.ADMIN_USERNAME THEN FALSE
    ELSE IF settings.ADMIN_PASSWORD_HASH.kind \notin {"none", "empty"}
    THEN verify_password(password, settings.ADMIN_PASSWORD_HASH)
    ELSE IF settings.ADMIN_PASSWORD_PLAIN.some
    THEN password = settings.ADMIN_PASSWORD_PLAIN.v
    ELSE FALSE

-----------------------------------------------------------------------------
(* The sync engine and its loader *)

\* datasync-mock/src/sync_engine.py: get_sync_status()
MockStatus ==
    [sqlserver |-> TRUE, mysql |-> TRUE, configured_tables |-> 1,
     enabled_tables |-> 1, system_health |-> <<"healthy-mock">>]

\* _Fallback.get_sync_status() of _load_sync_engine
FallbackStatus(err_name) ==
    [sqlserver |-> FALSE, mysql |-> FALSE, configured_tables |-> 0,
     enabled_tables |-> 0, system_health |-> <<"fallback: ", err_name>>]

Contains(t, c) == \E i \in 1..Len(t) : t[i] = c

\* os.path.join(home, "src"), for the one home directory of the process.
SrcEntry == "<home>/src"

\* sys.path of a fresh interpreter, and one that already lists the entry.
FreshPath == <<"site-packages">>
ListedPath == <<"site-packages", SrcEntry>>

Occurrences(path, e) == Cardinality({i \in 1..Len(path) : path[i] = e})

\* if src not in sys.path: sys.path.insert(0, src)
PathInsert(path) ==
    IF Contains(path, SrcEntry) THEN path ELSE <<SrcEntry>> \o path

\* Exception classes that do not derive from Exception.
BaseOnlyExceptions == {"SystemExit", "KeyboardInterrupt"}

ImportErrors == {"ModuleNotFoundError", "SyntaxError", "SystemExit"}

\* `import sync_engine`: a module already in sys.modules is returned as it is;
\* otherwise the module is searched and executed, and cached if that succeeds.
import_sync_engine(cached, err) ==
    IF cached \/ err = ""
    THEN [raised |-> "", cached |-> TRUE]
    ELSE [raised |-> err, cached |-> FALSE]

\* A variant whose except clause lets the exception through.
HandleImport_no_except(imp) ==
    IF imp.raised = ""
    THEN [kind |-> "sync_engine", err_name |-> "", raised |-> ""]
    ELSE [kind |-> "none", err_name |-> "", raised |-> imp.raised]

\* The try/except of _load_sync_engine around the import: the module, the
\* fallback class for an exception that `except Exception` catches, or the
\* exception itself when it does not.
HandleImport(imp) ==
    IF imp.raised = ""
    THEN [kind |-> "sync_engine", err_name |-> "", raised |-> ""]
    ELSE IF imp.raised \notin BaseOnlyExceptions
    THEN [kind |-> "_Fallback", err_name |-> imp.raised, raised |-> ""]
    ELSE [kind |-> "none", err_name |-> "", raised |-> imp.raised]

\* _load_sync_engine(): what it returns in the current state of the process.
_load_sync_engine == HandleImport(import_sync_engine(sysModules, importError))

\* What a call of _load_sync_engine leaves in sys.path and sys.modules.
LoadEffect ==
    /\ sysPath' = PathInsert(sysPath)
    /\ sysModules' = import_sync_engine(sysModules, importError).cached

get_sync_status(engine) ==
    IF engine.kind = "sync_engine" THEN MockStatus
    ELSE FallbackStatus(engine.err_name)

\* Every table the mock engine knows: ["kpi_jornadas"].
AllTables == <<Name_kpi>>

\* The tables the mock engine works on: `specific_tables or ["kpi_jornadas"]`.
EngineTables(specific_tables) ==
    IF specific_tables = <<>> THEN AllTables ELSE specific_tables

\* engine.sync_all_tables(specific_tables, dry_run): the exception it raises,
\* if any, and the tables it worked on. The fallback does nothing; the
\* installed engine may fail (engineFault); the mock rejects invalid names.
sync_all_tables(engine, specific_tables, dry_run) ==
    IF engine.kind # "sync_engine"
    THEN [raised |-> "", tables |-> <<>>]
    ELSE IF engineFault # ""
    THEN [raised |-> engineFault, tables |-> <<>>]
    ELSE IF \E i \in 1..Len(EngineTables(specific_tables)) :
               Contains(EngineTables(specific_tables)[i], ";")
                  \/ Contains(EngineTables(specific_tables)[i], " ")
    THEN [raised |-> "ValueError", tables |-> <<>>]
    ELSE [raised |-> "", tables |-> EngineTables(specific_tables)]

-----------------------------------------------------------------------------
(* POST /sync: the request body, its schema and the handler *)

\* A JSON body: "tables" is absent/null, a list of strings, or of another type;
\* "dry_run" is omitted, a boolean, or of another type.
NullTables == [kind |-> "null", items |-> <<>>]
ListTables(l) == [kind |-> "list", items |-> l]
BadTables == [kind |-> "badtype", items |-> <<>>]
DryOmitted == [kind |-> "omitted", v |-> TRUE]
DryBool(b) == [kind |-> "bool", v |-> b]
DryBad == [kind |-> "badtype", v |-> TRUE]

\* Sequences over S of length at most n.
SeqUpTo(S, n) == UNION {[1..k -> S] : k \in 0..n}

\* A variant of the schema without the _tables_min_len validator.
SyncRequest_no_min_len(body) ==
    IF body.tables.kind = "badtype" \/ body.dry_run.kind = "badtype"
    THEN HTTPError(422, "type_error")
    ELSE [ok |-> TRUE,
          tables |-> IF body.tables.kind = "null" THEN None
                     ELSE Some(body.tables.items),
          dry_run |-> body.dry_run.v]

\* SyncRequest(**body): the model instance, or pydantic's validation error,
\* which FastAPI answers with 422.
SyncRequest(body) ==
    IF body.tables.kind = "badtype" \/ body.dry_run.kind = "badtype"
    THEN HTTPError(422, "type_error")
    ELSE IF body.tables.kind = "list" /\ Len(body.tables.items) = 0
    THEN HTTPError(422, "ensure this value has at least 1 items; List should have at least 1 item")
    ELSE [ok |-> TRUE,
          tables |-> IF body.tables.kind = "null" THEN None
                     ELSE Some(body.tables.items),
          dry_run |-> body.dry_run.v]

\* A variant of the defensive check that forgets the semicolon.
IsBadName_space_only(t) == Contains(t, " ")

\* The condition of the list comprehension `bad` of sync().
IsBadName(t) == Contains(t, ";") \/ Contains(t, " ")

\* A variant of the comprehension that reports only the first invalid name.
BadNames_first_only(tables) ==
    LET all == SelectSeq(tables, IsBadName)
    IN  IF all = <<>> THEN <<>> ELSE <<Head(all)>>

BadNames(tables) == SelectSeq(tables, IsBadName)

\* A variant that reads an absent list as every table, whitelisted or not.
ViolatesWhitelist_null_is_all(tables, allowed) ==
    allowed # {} /\ (tables = <<>> \/ \E i \in 1..Len(tables) : tables[i] \notin allowed)

\* A variant that rejects only when no requested table is whitelisted.
ViolatesWhitelist_none_allowed(tables, allowed) ==
    allowed # {} /\ tables # <<>> /\ \A i \in 1..Len(tables) : tables[i] \notin allowed

\* allowed and any(t not in allowed for t in tables)
ViolatesWhitelist(tables, allowed) ==
    allowed # {} /\ \E i \in 1..Len(tables) : tables[i] \notin allowed

\* The response to an exception that leaves the handler: Starlette answers an
\* Exception with 500; anything else leaves the application without a response.
ServerError == [status |-> 500, detail |-> "Internal Server Error"]
Escaped(cls) == [status |-> 0, raised |-> cls]
Unhandled(cls) == IF cls \in BaseOnlyExceptions THEN Escaped(cls) ELSE ServerError

\* A variant that answers ok whatever the engine call did.
Dispatch_swallow(tables, dry_run) ==
    LET engine == _load_sync_engine
        run == sync_all_tables(engine, tables, dry_run)
        calls == << [call |-> "_load_sync_engine", engine |-> engine.kind],
                    [call |-> "sync_all_tables", engine |-> engine.kind,
                     specific_tables |-> tables, dry_run |-> dry_run,
                     worked_on |-> run.tables, raised |-> run.raised] >>
    IN  IF engine.raised # ""
        THEN [resp |-> Escaped(engine.raised), did |-> <<calls[1]>>]
        ELSE [resp |-> [status |-> 200,
                        body |-> [ok |-> TRUE, tables |-> tables, message |-> None]],
              did |-> calls]

\* A variant that calls the engine without the request's dry_run.
Dispatch_default_dry_run(tables, dry_run) ==
    LET engine == _load_sync_engine
        run == sync_all_tables(engine, tables, TRUE)
        calls == << [call |-> "_load_sync_engine", engine |-> engine.kind],
                    [call |-> "sync_all_tables", engine |-> engine.kind,
                     specific_tables |-> tables, dry_run |-> TRUE,
                     worked_on |-> run.tables, raised |-> run.raised] >>
    IN  IF engine.raised # ""
        THEN [resp |-> Escaped(engine.raised), did |-> <<calls[1]>>]
        ELSE IF run.raised # ""
        THEN [resp |-> Unhandled(run.raised), did |-> calls]
        ELSE [resp |-> [status |-> 200,
                        body |-> [ok |-> TRUE, tables |-> tables, message |-> None]],
              did |-> calls]

\* The last three lines of sync(): load the engine, call it, answer.
Dispatch(tables, dry_run) ==
    LET engine == _load_sync_engine
        run == sync_all_tables(engine, tables, dry_run)
        calls == << [call |-> "_load_sync_engine", engine |-> engine.kind],
                    [call |-> "sync_all_tables", engine |-> engine.kind,
                     specific_tables |-> tables, dry_run |-> dry_run,
                     worked_on |-> run.tables, raised |-> run.raised] >>
    IN  IF engine.raised # ""
        THEN [resp |-> Escaped(engine.raised), did |-> <<calls[1]>>]
        ELSE IF run.raised # ""
        THEN [resp |-> Unhandled(run.raised), did |-> calls]
        ELSE [resp |-> [status |-> 200,
                        body |-> [ok |-> TRUE, tables |-> tables, message |-> None]],
              did |-> calls]

\* A variant that consults the whitelist before it looks at the names.
sync_whitelist_first(req) ==
    LET tables == IF req.tables.some THEN req.tables.v ELSE <<>>
        bad == BadNames(tables)
    IN  IF ViolatesWhitelist(tables, settings.ALLOWED_TABLES)
        THEN [resp |-> [status |-> 403, detail |-> "Table not allowed by whitelist"],
              did |-> <<>>]
        ELSE IF bad # <<>>
        THEN [resp |-> [status |-> 400,
                        detail |-> [msg |-> "Invalid table names: ", names |-> bad]],
              did |-> <<>>]
        ELSE Dispatch(tables, req.dry_run)

\* The body of sync(req): the response and the calls it made.
sync(req) ==
    LET tables == IF req.tables.some THEN req.tables.v ELSE <<>>
        bad == BadNames(tables)
        allowed == settings.ALLOWED_TABLES
    IN  IF bad # <<>>
        THEN [resp |-> [status |-> 400,
                        detail |-> [msg |-> "Invalid table names: ", names |-> bad]],
              did |-> <<>>]
        ELSE IF ViolatesWhitelist(tables, allowed)
        THEN [resp |-> [status |-> 403, detail |-> "Table not allowed by whitelist"],
              did |-> <<>>]
        ELSE Dispatch(tables, req.dry_run)

-----------------------------------------------------------------------------
(* The QA helpers *)

\* _mount_htmlcov(): app.mount appends a route whenever the directory exists.
_mount_htmlcov(exists, n) ==
    [mounted |-> exists, mounts |-> IF exists THEN n + 1 ELSE n]

\* coverage.xml on disk. A line-rate is counted in units of 1/RateScale, so
\* Report(85125) is a file whose root element has line-rate="0.85125".
RateScale == 100000
MissingXml == [kind |-> "missing", rate |-> 0]
UnparseableXml == [kind |-> "unparseable", rate |-> 0]
NonNumericRate == [kind |-> "non-numeric line-rate", rate |-> 0]
NoRateAttribute == [kind |-> "no line-rate", rate |-> 0]
Report(rate) == [kind |-> "report", rate |-> rate]

\* The report a test run started by the service leaves behind.
RunReport == Report(85125)

\* A percentage counted in hundredths, or None.
NoPercent == [some |-> FALSE, v |-> 0]
Percent(hundredths) == [some |-> TRUE, v |-> hundredths]

\* round(line_rate * 100, 2), in hundredths: a value halfway between two
\* hundredths goes to the even one, as 0.85125 goes to 85.12.
round_truncate(line_rate) == (line_rate * 100 * 100) \div RateScale
round(line_rate) ==
    LET scaled == line_rate * 100 * 100
        q == scaled \div RateScale
        r == scaled % RateScale
    IN  IF 2 * r > RateScale \/ (2 * r = RateScale /\ q % 2 = 1) THEN q + 1 ELSE q

\* ET.parse(...).getroot() and float(root.attrib.get("line-rate", "0")): the
\* exception raised, if any, and the line rate.
ParseLineRate(xml) ==
    IF xml.kind = "unparseable" THEN [raised |-> "ParseError", line_rate |-> 0]
    ELSE IF xml.kind = "non-numeric line-rate"
    THEN [raised |-> "ValueError", line_rate |-> 0]
    ELSE IF xml.kind = "no line-rate" THEN [raised |-> "", line_rate |-> 0]
    ELSE [raised |-> "", line_rate |-> xml.rate]

\* _read_coverage_summary()
_read_coverage_summary(xml) ==
    IF xml.kind = "missing"
    THEN [ok |-> FALSE, percent |-> NoPercent]
    ELSE LET parsed == ParseLineRate(xml)
         IN  IF parsed.raised = ""
             THEN [ok |-> TRUE, percent |-> Percent(round(parsed.line_rate))]
             ELSE [ok |-> FALSE, percent |-> NoPercent]

\* JSON values a body can carry in "with_ai".
JBool(b) == [t |-> "bool", b |-> b, s |-> ""]
JNull == [t |-> "null", b |-> FALSE, s |-> ""]
JStr(s) == [t |-> "str", b |-> FALSE, s |-> s]

\* Python's bool(v) of a decoded JSON value.
Truthy(v) ==
    IF v.t = "bool" THEN v.b
    ELSE IF v.t = "str" THEN v.s # ""
    ELSE FALSE

\* The body of a test-run request, as far as the handlers read it: whether it
\* has a "with_ai" key, and the value. No body and a body without the key are
\* the same to them.
NoBody == [some |-> FALSE, v |-> JNull]
WithAi(v) == [some |-> TRUE, v |-> v]

Modes == {"auto", "ai", "pytest"}
WithAiBodies == {NoBody} \cup {WithAi(v) : v \in {JBool(TRUE), JBool(FALSE), JNull, JStr("no")}}

\* A variant in which the body wins over an explicit query mode.
ResolveMode_body_first(mode, body) ==
    IF body.some
    THEN (IF Truthy(body.v) THEN "ai" ELSE "pytest")
    ELSE mode

\* The mode after the with_ai field of the body is applied.
ResolveMode(mode, body) ==
    IF body.some /\ mode = "auto"
    THEN (IF Truthy(body.v) THEN "ai" ELSE "pytest")
    ELSE mode

\* The candidate locations of _detect_ai_runner, in the order it tries them.
RunnerCandidates ==
    << [path |-> "/app/tools/ai_test_runner.py", module_name |-> Some("tools.ai_test_runner")],
       [path |-> "tools/ai_test_runner.py", module_name |-> Some("tools.ai_test_runner")],
       [path |-> "ai_test_runner.py", module_name |-> None],
       [path |-> "/app/ai_test_runner.py", module_name |-> None] >>

RunnerPaths == {RunnerCandidates[i].path : i \in 1..Len(RunnerCandidates)}

NoRunner == [found |-> FALSE, path |-> "", module_name |-> None]

\* _detect_ai_runner() when exactly the paths in `files` exist: the first
\* candidate that exists, or None.
_detect_ai_runner(files) ==
    LET hits == {i \in 1..Len(RunnerCandidates) : RunnerCandidates[i].path \in files}
    IN  IF hits = {} THEN NoRunner
        ELSE LET first == CHOOSE i \in hits : \A k \in hits : i <= k
             IN  [found |-> TRUE, path |-> RunnerCandidates[first].path,
                  module_name |-> RunnerCandidates[first].module_name]

\* ["bash", "-lc", script], the script being a text and, for the f-string, a path.
Cmd(text, path) == <<"bash", "-lc", [text |-> text, path |-> path]>>

PytestCmd == Cmd("pytest --cov=app --cov-report=xml --cov-report=html -q", "")
AiModuleCmd == Cmd("cd /app && PYTHONPATH=/app python -u -m tools.ai_test_runner", "")
AiScriptCmd(path) == Cmd("python -u ", path)

\* A variant that runs the AI runner whenever there is one.
_choose_cmd_runner_first(mode, files) ==
    LET runner == _detect_ai_runner(files)
    IN  IF runner.found
        THEN (IF runner.module_name.some THEN AiModuleCmd ELSE AiScriptCmd(runner.path))
        ELSE PytestCmd

\* _choose_cmd(mode) when exactly the paths in `files` exist.
_choose_cmd(mode, files) ==
    LET runner == _detect_ai_runner(files)
    IN  IF mode = "ai" /\ ~runner.found
        THEN PytestCmd
        ELSE IF mode \in {"ai", "auto"} /\ runner.found
        THEN (IF runner.module_name.some THEN AiModuleCmd ELSE AiScriptCmd(runner.path))
        ELSE PytestCmd

\* subprocess.run(cmd, capture_output=True, text=True): the finished process.
CompletedProcess(returncode, stdout, stderr) ==
    [returncode |-> returncode, stdout |-> stdout, stderr |-> stderr]

\* A variant that treats a failing test run as a failure of the request
\* (subprocess.run(..., check=True)).
BufferedResult_check(mode, cmd, proc, cov, htmlcov, present) ==
    IF proc.returncode # 0
    THEN ServerError
    ELSE [status |-> 200,
          body |-> [mode |-> mode, resolved_cmd |-> cmd,
                    returncode |-> proc.returncode,
                    output |-> proc.stdout \o proc.stderr,
                    coverage |-> cov, htmlcov |-> htmlcov,
                    ai_runner_present |-> present]]

\* The response of qa_run_tests_normal.
BufferedResult(mode, cmd, proc, cov, htmlcov, present) ==
    [status |-> 200,
     body |-> [mode |-> mode, resolved_cmd |-> cmd,
               returncode |-> proc.returncode,
               output |-> proc.stdout \o proc.stderr,
               coverage |-> cov, htmlcov |-> htmlcov,
               ai_runner_present |-> present]]

-----------------------------------------------------------------------------
(* _stream_process: the generator behind POST /qa/run-tests/stream *)

\* The lines a test process writes; stderr is merged into stdout.
OutputLines == {"out\n", "err\n"}

\* One streamed run: where the generator is, what the process has written to
\* its pipe, what the generator has yielded to the client, whether the process
\* has closed its output and exited, whether the client is still connected,
\* and whether _mount_htmlcov() was called.
NoStream ==
    [pc |-> "none", produced |-> <<>>, sent |-> <<>>, closed |-> FALSE,
     exited |-> FALSE, connected |-> FALSE, published |-> FALSE]

\* asyncio.create_subprocess_exec(...) returned: the loop is entered.
Spawned == [NoStream EXCEPT !.pc = "async for", !.connected = TRUE]

\* `async for line in proc.stdout`: whether a line is waiting in the pipe, and
\* whether the pipe is at end of file.
HasLine(s) == Len(s.sent) < Len(s.produced)
AtEof(s) == s.closed /\ ~HasLine(s)

\* `yield line`: the oldest line not yet yielded.
Yield(s) == [s EXCEPT !.sent = Append(s.sent, s.produced[Len(s.sent) + 1])]

\* `await proc.wait()` returns once the process has exited.
WaitReturns_no_wait(s) == TRUE
WaitReturns(s) == s.exited

\* Cancellation reaches the generator where it is suspended: in the loop or in
\* proc.wait().
Suspended(s) == s.pc \in {"async for", "proc.wait"}

-----------------------------------------------------------------------------
(* tools/ai_test_runner.py *)

\* run_pytest_coverage(), given the coverage.xml the pytest run leaves: the
\* exception it raises, if any, and the summary's line_rate, which is absent
\* when there is no coverage.xml. A file that does not parse and a line-rate
\* float() rejects are not caught here.
run_pytest_coverage(xml) ==
    IF xml.kind = "missing"
    THEN [raised |-> "", line_rate |-> NoPercent]
    ELSE LET parsed == ParseLineRate(xml)
         IN  [raised |-> parsed.raised,
              line_rate |-> IF parsed.raised = "" THEN Percent(parsed.line_rate)
                            ELSE NoPercent]

\* cov.get("summary", {}).get("line_rate", 0.0)
line_rate_or_zero(cov) == IF cov.line_rate.some THEN cov.line_rate.v ELSE 0

\* What the LLM's answer turns into once written: test files, test files
\* with anti-patterns, or no file at all.
LlmReplies == {"tests", "tests with anti-patterns", "no files"}

\* analyze_generated_tests(files, pytest_output)
analyze_generated_tests(reply, failed) ==
    [anti_patterns |-> reply = "tests with anti-patterns", pytest_failures |-> failed]

\* `for it in range(1, MAX_ITERS + 1)`: whether there is a next iteration
\* after `it` of them.
range_has_next_inclusive(it, max_iters) == it <= max_iters
range_has_next(it, max_iters) == it < max_iters

\* `if after > best: best = after`
update_best(best, after) == IF after > best THEN after ELSE best

\* The condition of `break`, evaluated after best was updated.
breaks(it, max_iters, critique, after, best) ==
    \/ it = max_iters
    \/ ~critique.pytest_failures /\ ~critique.anti_patterns /\ after >= best

\* One run of main(): where it is, MAX_ITERS as read from the environment,
\* the iteration counter, the coverage before and the best so far, the
\* coverage of every completed iteration, the last critique, what the last
\* LLM answer was, and the number of calls to call_llm.
NotStarted ==
    [pc |-> "start", MAX_ITERS |-> 0, it |-> 0, before |-> 0, best |-> 0,
     afters |-> <<>>, critique |-> analyze_generated_tests("no files", FALSE),
     reply |-> "no files", llm_calls |-> 0]


-----------------------------------------------------------------------------
(* The state after start-up *)

NoRequest == [n |-> 0, route |-> "", at |-> 0, resp |-> [status |-> 0], did |-> <<>>]

Workers == {"w1", "w2"}
Idle == [pc |-> "idle", auth |-> NoHeader, principal |-> ""]

\* App construction followed by the startup hook _startup_mount_cov(), in an
\* environment drawn from: settings S, htmlcov H, PyJWT L, import outcome E,
\* sys.path P, runner files R.
InitEnv(S, H, L, E, P, R) ==
    /\ settings \in S
    /\ jwtLib \in L
    /\ now = 0
    /\ issued = {}
    /\ last = NoRequest
    /\ importError \in E
    /\ streams = 0
    /\ htmlcovExists \in H
    /\ covXml = MissingXml
    /\ mounts = _mount_htmlcov(htmlcovExists, 0).mounts
    /\ sysPath \in P
    /\ sysModules = FALSE
    /\ engineFault = ""
    /\ runnerFiles \in R
    /\ loaders = [w \in Workers |-> Idle]
    /\ stream = NoStream
    /\ aiRun = NotStarted

InitWith(S, H, L) == InitEnv(S, H, L, {""}, {FreshPath}, {{}})

-----------------------------------------------------------------------------
(* Requests *)

IssuedTokens == {i.tok : i \in issued}

\* What the response to a failed dependency looks like.
ErrorResponse(e) == [status |-> e.status, detail |-> e.detail]

\* Filing a handled request in `last`.
Record(route, auth, req, resp, did) ==
    last' = [n |-> last.n + 1, route |-> route, at |-> now, auth |-> auth,
             req |-> req, resp |-> resp, did |-> did]

\* The process is gone once an exception has left the application.
Terminated == last.n > 0 /\ last.resp.status = 0

CanServe == last.n < MaxRequests /\ ~Terminated

\* POST /auth/login
login(username, password) ==
    /\ CanServe
    /\ IF ~authenticate_user(username, password)
       THEN /\ Record("POST /auth/login", NoHeader,
                      [username |-> username, password |-> password],
                      [status |-> 401, detail |-> "Invalid credentials"], <<>>)
            /\ UNCHANGED issued
       ELSE LET token == create_access_token(username, now)
            IN  /\ Record("POST /auth/login", NoHeader,
                          [username |-> username, password |-> password],
                          [status |-> 200,
                           body |-> [access_token |-> token, token_type |-> "bearer"]],
                          << [call |-> "create_access_token", username |-> username] >>)
                /\ issued' = issued \cup {[tok |-> token, at |-> now, by |-> "login"]}
    /\ UNCHANGED <<settings, jwtLib, stream, aiRun, engineFault, runnerFiles, loaders,
                   sysPath, sysModules, now, importError, streams, htmlcovExists,
                   covXml, mounts>>

\* A variant that serves the dev token whatever the configuration says.
DevEnabled_always == TRUE

\* getattr(settings, "DASHBOARD_ENABLE_DEV", True)
DevEnabled == settings.DASHBOARD_ENABLE_DEV

\* POST /internal/dev-token
dev_token ==
    /\ CanServe
    /\ IF ~DevEnabled
       THEN /\ Record("POST /internal/dev-token", NoHeader, [none |-> TRUE],
                      [status |-> 403, detail |-> "Dev token disabled"], <<>>)
            /\ UNCHANGED issued
       ELSE LET token == create_access_token(settings.ADMIN_USERNAME, now)
            IN  /\ Record("POST /internal/dev-token", NoHeader, [none |-> TRUE],
                          [status |-> 200, body |-> [access_token |-> token]],
                          << [call |-> "create_access_token",
                              username |-> settings.ADMIN_USERNAME] >>)
                /\ issued' = issued \cup {[tok |-> token, at |-> now, by |-> "dev_token"]}
    /\ UNCHANGED <<settings, jwtLib, stream, aiRun, engineFault, runnerFiles, loaders,
                   sysPath, sysModules, now, importError, streams, htmlcovExists,
                   covXml, mounts>>

\* The body of status(): the response and the calls it made.
status_body ==
    LET engine == _load_sync_engine
    IN  IF engine.raised # ""
        THEN [resp |-> Escaped(engine.raised),
              did |-> << [call |-> "_load_sync_engine", engine |-> engine.kind] >>]
        ELSE [resp |-> [status |-> 200, body |-> get_sync_status(engine)],
              did |-> << [call |-> "_load_sync_engine", engine |-> engine.kind],
                         [call |-> "get_sync_status", engine |-> engine.kind] >>]

\* GET /status
status(auth) ==
    /\ CanServe
    /\ LET g == Guard(auth, now)
       IN  IF ~g.ok
           THEN /\ Record("GET /status", auth, [none |-> TRUE], ErrorResponse(g), <<>>)
                /\ UNCHANGED <<sysPath, sysModules>>
           ELSE /\ Record("GET /status", auth, [none |-> TRUE],
                          status_body.resp @@ [principal |-> g.value],
                          status_body.did)
                /\ LoadEffect
    /\ UNCHANGED <<settings, jwtLib, stream, aiRun, engineFault, runnerFiles, loaders,
                   now, issued, importError, streams,
                   htmlcovExists, covXml, mounts>>

\* POST /sync: the guard, then the body's schema, then the handler.
sync_route(auth, body) ==
    /\ CanServe
    /\ LET g == Guard(auth, now)
           req == SyncRequest(body)
       IN  IF ~g.ok
           THEN /\ Record("POST /sync", auth, body, ErrorResponse(g), <<>>)
                /\ UNCHANGED <<sysPath, sysModules>>
           ELSE IF ~req.ok
           THEN /\ Record("POST /sync", auth, body, ErrorResponse(req), <<>>)
                /\ UNCHANGED <<sysPath, sysModules>>
           ELSE /\ Record("POST /sync", auth, body,
                          sync(req).resp @@ [principal |-> g.value],
                          sync(req).did)
                /\ IF sync(req).did # <<>>
                   THEN LoadEffect
                   ELSE UNCHANGED <<sysPath, sysModules>>
    /\ UNCHANGED <<settings, jwtLib, stream, aiRun, engineFault, runnerFiles, loaders,
                   now, issued, importError, streams,
                   htmlcovExists, covXml, mounts>>

\* POST /qa/run-tests: the process runs to its end inside the request; it may
\* write htmlcov and coverage.xml.
qa_run_tests_normal(auth, mode, body, proc, wroteReports) ==
    /\ CanServe
    /\ LET g == Guard(auth, now)
           m == ResolveMode(mode, body)
           cmd == _choose_cmd(m, runnerFiles)
           dir == htmlcovExists \/ wroteReports
           xml == IF wroteReports THEN RunReport ELSE covXml
       IN  IF ~g.ok
           THEN /\ Record("POST /qa/run-tests", auth, [mode |-> mode, body |-> body],
                          ErrorResponse(g), <<>>)
                /\ UNCHANGED <<htmlcovExists, covXml, mounts>>
           ELSE /\ htmlcovExists' = dir
                /\ covXml' = xml
                /\ mounts' = _mount_htmlcov(dir, mounts).mounts
                /\ Record("POST /qa/run-tests", auth, [mode |-> mode, body |-> body],
                          BufferedResult(m, cmd, proc, _read_coverage_summary(xml), dir,
                                         _detect_ai_runner(runnerFiles).found)
                              @@ [principal |-> g.value],
                          << [call |-> "subprocess.run", mode |-> m, cmd |-> cmd,
                              exit |-> proc.returncode, stdout |-> proc.stdout,
                              stderr |-> proc.stderr],
                             [call |-> "_mount_htmlcov"],
                             [call |-> "_read_coverage_summary"] >>)
    /\ UNCHANGED <<settings, jwtLib, stream, aiRun, engineFault, runnerFiles, loaders,
                   sysPath, sysModules, now, issued, importError, streams>>

\* POST /qa/run-tests/stream: the response starts a process that outlives the
\* handler.
qa_run_tests_stream(auth, mode, body) ==
    /\ CanServe
    /\ LET g == Guard(auth, now)
           m == ResolveMode(mode, body)
           cmd == _choose_cmd(m, runnerFiles)
       IN  IF ~g.ok
           THEN /\ Record("POST /qa/run-tests/stream", auth,
                          [mode |-> mode, body |-> body], ErrorResponse(g), <<>>)
                /\ UNCHANGED streams
           ELSE /\ streams' = streams + 1
                /\ Record("POST /qa/run-tests/stream", auth,
                          [mode |-> mode, body |-> body],
                          [status |-> 200, principal |-> g.value],
                          << [call |-> "create_subprocess_exec", mode |-> m,
                              cmd |-> cmd] >>)
    /\ UNCHANGED <<settings, jwtLib, stream, aiRun, engineFault, runnerFiles, loaders,
                   sysPath, sysModules, now, issued, importError, htmlcovExists,
                   covXml, mounts>>

\* The end of _stream_process: the process has exited, then _mount_htmlcov().
stream_exit(wroteReports) ==
    /\ streams > 0
    /\ streams' = streams - 1
    /\ htmlcovExists' = (htmlcovExists \/ wroteReports)
    /\ covXml' = IF wroteReports THEN RunReport ELSE covXml
    /\ mounts' = _mount_htmlcov(htmlcovExists \/ wroteReports, mounts).mounts
    /\ UNCHANGED <<settings, jwtLib, stream, aiRun, engineFault, runnerFiles, loaders,
                   sysPath, sysModules, now, issued, last, importError>>

\* The server starts to iterate the body of a streamed response:
\* _stream_process runs up to its loop.
stream_spawn ==
    /\ streams > 0
    /\ stream.pc = "none"
    /\ stream' = Spawned
    /\ UNCHANGED <<settings, jwtLib, aiRun, engineFault, runnerFiles, loaders,
                   sysPath, sysModules, now, issued, last, importError, streams,
                   htmlcovExists, covXml, mounts>>

\* The test process writes a line.
proc_write(line) ==
    /\ stream.pc # "none"
    /\ ~stream.closed
    /\ Len(stream.produced) < MaxLines
    /\ stream' = [stream EXCEPT !.produced = Append(@, line)]
    /\ UNCHANGED <<settings, jwtLib, aiRun, engineFault, runnerFiles, loaders,
                   sysPath, sysModules, now, issued, last, importError, streams,
                   htmlcovExists, covXml, mounts>>

\* The test process closes its output before it exits.
proc_close ==
    /\ stream.pc # "none"
    /\ ~stream.closed
    /\ stream' = [stream EXCEPT !.closed = TRUE]
    /\ UNCHANGED <<settings, jwtLib, aiRun, engineFault, runnerFiles, loaders,
                   sysPath, sysModules, now, issued, last, importError, streams,
                   htmlcovExists, covXml, mounts>>

\* The test process exits, which closes its output.
proc_exit(wroteReports) ==
    /\ stream.pc # "none"
    /\ ~stream.exited
    /\ stream' = [stream EXCEPT !.closed = TRUE, !.exited = TRUE]
    /\ streams' = streams - 1
    /\ htmlcovExists' = (htmlcovExists \/ wroteReports)
    /\ covXml' = IF wroteReports THEN RunReport ELSE covXml
    /\ UNCHANGED <<settings, jwtLib, aiRun, engineFault, runnerFiles, loaders,
                   sysPath, sysModules, now, issued, last, importError, mounts>>

\* One turn of the loop: a line is read and yielded to the client.
stream_forward ==
    /\ stream.pc = "async for"
    /\ HasLine(stream)
    /\ stream' = Yield(stream)
    /\ UNCHANGED <<settings, jwtLib, aiRun, engineFault, runnerFiles, loaders,
                   sysPath, sysModules, now, issued, last, importError, streams,
                   htmlcovExists, covXml, mounts>>

\* The loop ends at end of file.
stream_eof ==
    /\ stream.pc = "async for"
    /\ AtEof(stream)
    /\ stream' = [stream EXCEPT !.pc = "proc.wait"]
    /\ UNCHANGED <<settings, jwtLib, aiRun, engineFault, runnerFiles, loaders,
                   sysPath, sysModules, now, issued, last, importError, streams,
                   htmlcovExists, covXml, mounts>>

\* proc.wait() returns, _mount_htmlcov() is called and the generator returns.
stream_finish ==
    /\ stream.pc = "proc.wait"
    /\ WaitReturns(stream)
    /\ mounts' = _mount_htmlcov(htmlcovExists, mounts).mounts
    /\ stream' = [stream EXCEPT !.pc = "returned", !.published = TRUE]
    /\ UNCHANGED <<settings, jwtLib, aiRun, engineFault, runnerFiles, loaders,
                   sysPath, sysModules, now, issued, last, importError, streams,
                   htmlcovExists, covXml>>

\* The client goes away: the server cancels the response and the generator
\* with it, so the rest of _stream_process does not run.
client_disconnect ==
    /\ Suspended(stream)
    /\ stream' = [stream EXCEPT !.pc = "cancelled", !.connected = FALSE]
    /\ UNCHANGED <<settings, jwtLib, aiRun, engineFault, runnerFiles, loaders,
                   sysPath, sysModules, now, issued, last, importError, streams,
                   htmlcovExists, covXml, mounts>>

\* GET /qa/coverage/summary
qa_coverage_summary(auth) ==
    /\ CanServe
    /\ LET g == Guard(auth, now)
       IN  IF ~g.ok
           THEN Record("GET /qa/coverage/summary", auth, [none |-> TRUE],
                       ErrorResponse(g), <<>>)
           ELSE Record("GET /qa/coverage/summary", auth, [none |-> TRUE],
                       [status |-> 200, body |-> _read_coverage_summary(covXml),
                        principal |-> g.value],
                       << [call |-> "_read_coverage_summary"] >>)
    /\ UNCHANGED <<settings, jwtLib, stream, aiRun, engineFault, runnerFiles, loaders,
                   sysPath, sysModules, now, issued, importError, streams,
                   htmlcovExists, covXml, mounts>>

\* POST /qa/coverage/refresh
qa_refresh_coverage(auth) ==
    /\ CanServe
    /\ LET g == Guard(auth, now)
           m == _mount_htmlcov(htmlcovExists, mounts)
       IN  IF ~g.ok
           THEN /\ Record("POST /qa/coverage/refresh", auth, [none |-> TRUE],
                          ErrorResponse(g), <<>>)
                /\ UNCHANGED mounts
           ELSE /\ mounts' = m.mounts
                /\ Record("POST /qa/coverage/refresh", auth, [none |-> TRUE],
                          [status |-> 200, body |-> [ok |-> m.mounted],
                           principal |-> g.value],
                          << [call |-> "_mount_htmlcov"] >>)
    /\ UNCHANGED <<settings, jwtLib, stream, aiRun, engineFault, runnerFiles, loaders,
                   sysPath, sysModules, now, issued, importError, streams,
                   htmlcovExists, covXml>>

\* Something outside the service (a test run from a shell, a clean-up) writes,
\* damages or removes coverage.xml.
coverage_change(xml) ==
    /\ xml # covXml
    /\ covXml' = xml
    /\ UNCHANGED <<settings, jwtLib, stream, aiRun, engineFault, runnerFiles, loaders,
                   sysPath, sysModules, now, issued, last, importError, streams,
                   htmlcovExists, mounts>>

\* main() up to the loop: the initial pytest run.
runner_main(max_iters, xml) ==
    /\ aiRun.pc = "start"
    /\ LET cov_before == run_pytest_coverage(xml)
           before == line_rate_or_zero(cov_before)
       IN  aiRun' = IF cov_before.raised # ""
                    THEN [aiRun EXCEPT !.pc = "raised", !.MAX_ITERS = max_iters]
                    ELSE [aiRun EXCEPT !.pc = "for", !.MAX_ITERS = max_iters,
                                       !.before = before, !.best = before]
    /\ UNCHANGED <<settings, jwtLib, stream, engineFault, runnerFiles, loaders,
                   sysPath, sysModules, now, issued, last, importError, streams,
                   htmlcovExists, covXml, mounts>>

\* The head of the loop: the next value of `it`, or the end of the range.
runner_for ==
    /\ aiRun.pc = "for"
    /\ aiRun' = IF range_has_next(aiRun.it, aiRun.MAX_ITERS)
                THEN [aiRun EXCEPT !.pc = "call_llm", !.it = @ + 1]
                ELSE [aiRun EXCEPT !.pc = "report"]
    /\ UNCHANGED <<settings, jwtLib, stream, engineFault, runnerFiles, loaders,
                   sysPath, sysModules, now, issued, last, importError, streams,
                   htmlcovExists, covXml, mounts>>

\* build_prompt_context, call_llm, write_tests_from_llm.
runner_call_llm(reply) ==
    /\ aiRun.pc = "call_llm"
    /\ aiRun' = [aiRun EXCEPT !.pc = "run_pytest_coverage", !.reply = reply,
                              !.llm_calls = @ + 1]
    /\ UNCHANGED <<settings, jwtLib, stream, engineFault, runnerFiles, loaders,
                   sysPath, sysModules, now, issued, last, importError, streams,
                   htmlcovExists, covXml, mounts>>

\* The rest of the loop body: the pytest run, the critique, best, break.
runner_iterate(xml, failed) ==
    /\ aiRun.pc = "run_pytest_coverage"
    /\ LET cov_after == run_pytest_coverage(xml)
           after == line_rate_or_zero(cov_after)
           critique == analyze_generated_tests(aiRun.reply, failed)
           best == update_best(aiRun.best, after)
       IN  aiRun' = IF cov_after.raised # ""
                    THEN [aiRun EXCEPT !.pc = "raised"]
                    ELSE [aiRun EXCEPT
                            !.afters = Append(@, after),
                            !.critique = critique,
                            !.best = best,
                            !.pc = IF breaks(aiRun.it, aiRun.MAX_ITERS, critique,
                                             after, best)
                                   THEN "report" ELSE "for"]
    /\ UNCHANGED <<settings, jwtLib, stream, engineFault, runnerFiles, loaders,
                   sysPath, sysModules, now, issued, last, importError, streams,
                   htmlcovExists, covXml, mounts>>

\* The two prints after the loop.
runner_report ==
    /\ aiRun.pc = "report"
    /\ aiRun' = [aiRun EXCEPT !.pc = "done"]
    /\ UNCHANGED <<settings, jwtLib, stream, engineFault, runnerFiles, loaders,
                   sysPath, sysModules, now, issued, last, importError, streams,
                   htmlcovExists, covXml, mounts>>

\* The clock moves by d ticks: in small steps while a token is young or about
\* to expire, or in one jump from the first of these windows to the second.
Tick(d) ==
    /\ now + d <= Horizon
    /\ d < TTLTicks - SlackTicks
          => (now < SlackTicks \/ now >= TTLTicks - SlackTicks)
    /\ now' = now + d
    /\ UNCHANGED <<settings, jwtLib, stream, aiRun, engineFault, runnerFiles, loaders,
                   sysPath, sysModules, issued, last, importError, streams,
                   htmlcovExists, covXml, mounts>>

-----------------------------------------------------------------------------
(* What a client can present *)

\* A token made outside the service: any payload, signed with any key.
Craft(sub, exp, key) ==
    [form |-> "jwt", sub |-> sub, exp |-> exp, sig |-> HS256(key, sub, exp)]

CraftedTokens ==
    {Craft(sub, exp, key) :
        sub \in Usernames \cup {NoSub}, exp \in {NoExp, 0}, key \in Keys}

\* An issued token whose payload was edited and whose signature was kept.
TamperedTokens ==
    {[t EXCEPT !.sub = s] : t \in IssuedTokens, s \in Usernames}
        \cup {[t EXCEPT !.exp = t.exp + TTLSeconds] : t \in IssuedTokens}

TokenInputs == IssuedTokens \cup TamperedTokens \cup CraftedTokens \cup {Garbage}

AuthInputs ==
    {NoHeader} \cup {Basic(t) : t \in IssuedTokens} \cup {Bearer(t) : t \in TokenInputs}

-----------------------------------------------------------------------------
(* The token service: login, the dev token, and a protected route *)

JwtLibs == {"current", "legacy"}

Init == InitWith(AuthSettings, {FALSE}, JwtLibs)

Login == \E u \in Usernames, p \in Passwords : login(u, p)

DevToken == dev_token

Status == \E a \in AuthInputs : status(a)

Clock == \E d \in {1, TTLTicks - SlackTicks} : Tick(d)

Next == Clock \/ Login \/ DevToken \/ Status

Spec == Init /\ [][Next]_vars

-----------------------------------------------------------------------------
(* The credential check under every credential configuration *)

InitCred == InitWith(CredentialSettings, {FALSE}, {"current"})

NextCred == Login

SpecCred == InitCred /\ [][NextCred]_vars

-----------------------------------------------------------------------------
(* Every protected route behind the guard *)

GuardTokenInputs ==
    IssuedTokens \cup {Garbage, Craft("admin", NoExp, "another_secret"),
                       Craft(NoSub, NoExp, JWT_SECRET)}
        \cup {[t EXCEPT !.sub = "ops"] : t \in IssuedTokens}

GuardAuthInputs == {NoHeader} \cup {Bearer(t) : t \in GuardTokenInputs}

\* Bodies of POST /sync that exercise each outcome of the handler once.
BasicSyncBodies ==
    {[tables |-> t, dry_run |-> DryOmitted] :
        t \in {NullTables, ListTables(<<>>), ListTables(<<Name_kpi>>),
                ListTables(<<Name_semi>>)}}

InitGuard == InitWith({DefaultSettings}, BOOLEAN, {"current"})

SyncBasic == \E a \in GuardAuthInputs, b \in BasicSyncBodies : sync_route(a, b)

StatusGuarded == \E a \in GuardAuthInputs : status(a)

RunTests ==
    \E a \in GuardAuthInputs, rc \in {0, 1}, w \in BOOLEAN :
        qa_run_tests_normal(a, "auto", NoBody, CompletedProcess(rc, <<>>, <<>>), w)

RunTestsStream == \E a \in GuardAuthInputs : qa_run_tests_stream(a, "auto", NoBody)

StreamExit == \E w \in BOOLEAN : stream_exit(w)

CoverageSummary == \E a \in GuardAuthInputs : qa_coverage_summary(a)

CoverageRefresh == \E a \in GuardAuthInputs : qa_refresh_coverage(a)

\* A second passes, or a whole token lifetime.
ClockGuard == \E d \in {TicksPerSecond, TTLTicks} : Tick(d)

LoginAdmin == \E p \in {"adminadmin", "hunter2"} : login("admin", p)

NextGuard ==
    \/ ClockGuard \/ LoginAdmin \/ DevToken
    \/ StatusGuarded \/ SyncBasic
    \/ RunTests \/ RunTestsStream \/ StreamExit
    \/ CoverageSummary \/ CoverageRefresh

SpecGuard == InitGuard /\ [][NextGuard]_vars

-----------------------------------------------------------------------------
(* POST /sync with every table list *)

SyncBodies ==
    {[tables |-> t, dry_run |-> d] :
        t \in {NullTables, BadTables}
                \cup {ListTables(l) : l \in SeqUpTo(TableNames, MaxTables)},
        d \in {DryOmitted, DryBool(FALSE), DryBad}}

SyncAuthInputs == {NoHeader} \cup {Bearer(t) : t \in IssuedTokens}

InitSync == InitWith(SyncSettings, {FALSE}, {"current"})

Sync == \E a \in SyncAuthInputs, b \in SyncBodies : sync_route(a, b)

NextSync == DevToken \/ Sync

SpecSync == InitSync /\ [][NextSync]_vars

-----------------------------------------------------------------------------
(* The engine behind GET /status and POST /sync, in a changing environment *)

EngineFaults == {"RuntimeError"}

\* The engine on disk changes: it appears, disappears or breaks, and its
\* sync_all_tables starts or stops failing.
engine_change(err, fault) ==
    /\ <<err, fault>> # <<importError, engineFault>>
    /\ importError' = err
    /\ engineFault' = fault
    /\ UNCHANGED <<settings, jwtLib, stream, aiRun, now, issued, last, streams, htmlcovExists,
                   covXml, mounts, sysPath, sysModules, runnerFiles, loaders>>

\* A token of the operator, who holds JWT_SECRET.
OperatorToken == Craft("admin", NoExp, JWT_SECRET)

EngineAuthInputs == {NoHeader, Bearer(OperatorToken)}

EngineSyncBodies ==
    {[tables |-> t, dry_run |-> d] :
        t \in {NullTables, ListTables(<<Name_kpi>>), ListTables(<<Name_semi>>)},
        d \in {DryOmitted, DryBool(FALSE)}}

InitEngine ==
    InitEnv({DefaultSettings}, {FALSE}, {"current"}, {""} \cup ImportErrors,
            {FreshPath, ListedPath}, {{}})

EngineChange ==
    \E e \in {""} \cup ImportErrors, f \in {""} \cup EngineFaults : engine_change(e, f)

StatusEngine == \E a \in EngineAuthInputs : status(a)

SyncEngine == \E a \in EngineAuthInputs, b \in EngineSyncBodies : sync_route(a, b)

NextEngine == EngineChange \/ StatusEngine \/ SyncEngine

SpecEngine == InitEngine /\ [][NextEngine]_vars

-----------------------------------------------------------------------------
(* GET /status served by worker threads, one statement of the loader at a time *)

Busy == {w \in Workers : loaders[w].pc # "idle"}

\* Requests being served count against the bound like those already served.
CanStart == last.n + Cardinality(Busy) < MaxRequests /\ ~Terminated

\* A worker takes a GET /status request: the guard, then into the handler.
status_start(w, auth) ==
    /\ CanStart
    /\ loaders[w].pc = "idle"
    /\ LET g == Guard(auth, now)
       IN  IF ~g.ok
           THEN /\ Record("GET /status", auth, [none |-> TRUE], ErrorResponse(g), <<>>)
                /\ UNCHANGED loaders
           ELSE /\ loaders' = [loaders EXCEPT ![w] =
                                  [pc |-> "check", auth |-> auth, principal |-> g.value]]
                /\ UNCHANGED last
    /\ UNCHANGED <<settings, jwtLib, stream, aiRun, now, issued, importError, streams, htmlcovExists,
                   covXml, mounts, sysPath, sysModules, engineFault, runnerFiles>>

\* `if src not in sys.path:` the worker reads sys.path.
load_check(w) ==
    /\ loaders[w].pc = "check"
    /\ loaders' = [loaders EXCEPT ![w].pc =
                      IF Contains(sysPath, SrcEntry) THEN "import" ELSE "insert"]
    /\ UNCHANGED <<settings, jwtLib, stream, aiRun, now, issued, last, importError, streams,
                   htmlcovExists, covXml, mounts, sysPath, sysModules, engineFault,
                   runnerFiles>>

\* `sys.path.insert(0, src)`
load_insert(w) ==
    /\ loaders[w].pc = "insert"
    /\ sysPath' = <<SrcEntry>> \o sysPath
    /\ loaders' = [loaders EXCEPT ![w].pc = "import"]
    /\ UNCHANGED <<settings, jwtLib, stream, aiRun, now, issued, last, importError, streams,
                   htmlcovExists, covXml, mounts, sysModules, engineFault, runnerFiles>>

\* The import with its try/except, then the rest of status() and the response.
load_import(w) ==
    /\ loaders[w].pc = "import"
    /\ sysModules' = import_sync_engine(sysModules, importError).cached
    /\ Record("GET /status", loaders[w].auth, [none |-> TRUE],
              status_body.resp @@ [principal |-> loaders[w].principal],
              status_body.did)
    /\ loaders' = [loaders EXCEPT ![w] = Idle]
    /\ UNCHANGED <<settings, jwtLib, stream, aiRun, now, issued, importError, streams, htmlcovExists,
                   covXml, mounts, sysPath, engineFault, runnerFiles>>

InitLoader ==
    InitEnv({DefaultSettings}, {FALSE}, {"current"}, {""} \cup ImportErrors,
            {FreshPath, ListedPath}, {{}})

StatusStart == \E w \in Workers, a \in EngineAuthInputs : status_start(w, a)

LoadCheck == \E w \in Workers : load_check(w)

LoadInsert == \E w \in Workers : load_insert(w)

LoadImport == \E w \in Workers : load_import(w)

NextLoader == StatusStart \/ LoadCheck \/ LoadInsert \/ LoadImport

SpecLoader == InitLoader /\ [][NextLoader]_vars

-----------------------------------------------------------------------------
(* The test runs, with every mode, body, set of runner files and process outcome *)

ExitCodes == {0, 1, -9}

ProcOutcomes ==
    {CompletedProcess(rc, o, e) :
        rc \in ExitCodes, o \in {<<>>, <<"out">>}, e \in {<<>>, <<"err">>}}

InitQA ==
    InitEnv({DefaultSettings}, {FALSE}, {"current"}, {""}, {FreshPath},
            SUBSET RunnerPaths)

\* Buffered runs in every mode and with every body, the process succeeding.
RunTestsModes ==
    \E a \in EngineAuthInputs, m \in Modes, b \in WithAiBodies, w \in BOOLEAN :
        qa_run_tests_normal(a, m, b, CompletedProcess(0, <<"out">>, <<>>), w)

\* Buffered runs with every outcome of the process, in the default mode.
RunTestsOutcomes ==
    \E a \in EngineAuthInputs, p \in ProcOutcomes, w \in BOOLEAN :
        qa_run_tests_normal(a, "auto", NoBody, p, w)

RunTestsStreamQA ==
    \E a \in EngineAuthInputs, m \in Modes, b \in WithAiBodies :
        qa_run_tests_stream(a, m, b)

NextQA == RunTestsModes \/ RunTestsOutcomes \/ RunTestsStreamQA \/ StreamExit

SpecQA == InitQA /\ [][NextQA]_vars

-----------------------------------------------------------------------------
(* One streamed test run, line by line. The event loop runs the generator  *)
(* whenever it can take a step; the process and the client are under no    *)
(* obligation.                                                             *)

InitStream ==
    InitEnv({DefaultSettings}, BOOLEAN, {"current"}, {""}, {FreshPath}, {{}})

StreamRequest ==
    \E auth \in EngineAuthInputs : qa_run_tests_stream(auth, "pytest", NoBody)
ProcWrite == \E line \in OutputLines : proc_write(line)
ProcExit == \E wroteReports \in BOOLEAN : proc_exit(wroteReports)

NextStream ==
    \/ StreamRequest \/ stream_spawn \/ ProcWrite \/ proc_close \/ ProcExit
    \/ stream_forward \/ stream_eof \/ stream_finish \/ client_disconnect

SpecStream ==
    /\ InitStream
    /\ [][NextStream]_vars
    /\ WF_vars(stream_spawn)
    /\ WF_vars(stream_forward)
    /\ WF_vars(stream_eof)
    /\ WF_vars(stream_finish)

-----------------------------------------------------------------------------
(* The coverage summary while coverage.xml comes, changes and goes *)

LineRates == {0, 33333, 85125, 85135, 99999, RateScale}

CovXmlValues ==
    {MissingXml, UnparseableXml, NonNumericRate, NoRateAttribute}
        \cup {Report(rate) : rate \in LineRates}

InitCov ==
    InitEnv({DefaultSettings}, {FALSE}, {"current"}, {""}, {FreshPath}, {{}})

CoverageChange == \E xml \in CovXmlValues : coverage_change(xml)
CoverageSummaryCov == \E auth \in EngineAuthInputs : qa_coverage_summary(auth)

NextCov == CoverageChange \/ CoverageSummaryCov

SpecCov == InitCov /\ [][NextCov]_vars

-----------------------------------------------------------------------------
(* tools/ai_test_runner.py main(), with every MAX_ITERS, LLM answer and    *)
(* pytest outcome. Every pytest run and every LLM call returns.            *)

MaxItersValues == (0 - 1)..MaxItersBound

RunnerXmlValues ==
    {MissingXml, UnparseableXml} \cup {Report(rate) : rate \in {33333, 85125, RateScale}}

InitRunner ==
    InitEnv({DefaultSettings}, {FALSE}, {"current"}, {""}, {FreshPath}, {{}})

RunnerMain ==
    \E max_iters \in MaxItersValues, xml \in RunnerXmlValues : runner_main(max_iters, xml)
RunnerCallLlm == \E reply \in LlmReplies : runner_call_llm(reply)
RunnerIterate ==
    \E xml \in RunnerXmlValues, failed \in BOOLEAN : runner_iterate(xml, failed)

NextRunner == RunnerMain \/ runner_for \/ RunnerCallLlm \/ RunnerIterate \/ runner_report

SpecRunner == InitRunner /\ [][NextRunner]_vars /\ WF_vars(NextRunner)

-----------------------------------------------------------------------------
(* Vocabulary of the properties *)

ProtectedRoutes ==
    {"GET /status", "POST /sync", "POST /qa/run-tests", "POST /qa/run-tests/stream",
     "GET /qa/coverage/summary", "POST /qa/coverage/refresh"}

\* The ways token `tok` fails verification at time t.
FailureCauses(tok, t) ==
    {c \in {"malformed", "other secret", "tampered", "expired", "no sub"} :
        \/ c = "malformed" /\ tok.form # "jwt"
        \/ c = "other secret" /\ tok.form = "jwt" /\ tok.sig.key # JWT_SECRET
        \/ c = "tampered" /\ tok.form = "jwt"
              /\ (tok.sig.sub # tok.sub \/ tok.sig.exp # tok.exp)
        \/ c = "expired" /\ tok.form = "jwt" /\ tok.exp # NoExp /\ Expired(tok.exp, t)
        \/ c = "no sub" /\ tok.form = "jwt" /\ tok.sub = NoSub}

GenericAuthError == [status |-> 401, detail |-> "Invalid or expired token"]

LastIsProtected == last.n > 0 /\ last.route \in ProtectedRoutes
LastHasBearer == LastIsProtected /\ last.auth.hdr /\ last.auth.scheme = "bearer"
LastAccepted(sub) == last.resp.status = 200 /\ last.resp.principal = sub

\* The instant (in ticks) at which the whole-second exp claim of a token falls.
ExpTick(tok) == tok.exp * TicksPerSecond

-----------------------------------------------------------------------------
(* C1 *)

\* C1 as stated: a token issued for a username and presented at any time
\* strictly before issue time + ACCESS_TOKEN_EXPIRE_HOURS is accepted and
\* yields that username.
C1_RoundTripUntilIssuePlusTTL ==
    \A i \in issued :
        (LastHasBearer /\ last.auth.tok = i.tok
            /\ i.at <= last.at /\ last.at < i.at + TTLTicks)
        => LastAccepted(i.tok.sub)

\* C1 amended: a token issued for a username and presented at any time strictly
\* before its exp claim (issue time + ACCESS_TOKEN_EXPIRE_HOURS, truncated to
\* whole seconds) is accepted and yields exactly that username.
C1_RoundTripUntilExp ==
    \A i \in issued :
        (LastHasBearer /\ last.auth.tok = i.tok
            /\ i.at <= last.at /\ last.at < ExpTick(i.tok))
        => LastAccepted(i.tok.sub)

\* An issued token accepted in the last second of its life.
C1_Witness ==
    \E i \in issued :
        /\ LastHasBearer /\ last.auth.tok = i.tok
        /\ last.at > i.at /\ last.at >= ExpTick(i.tok) - TicksPerSecond
        /\ last.at < ExpTick(i.tok)
        /\ LastAccepted(i.tok.sub)
        /\ i.tok.sub \in Usernames

-----------------------------------------------------------------------------
(* C2 *)

\* C2: whatever makes a presented token fail verification (malformed, signed
\* with another secret, tampered payload, expired, no sub claim), the response
\* is the same 401 "Invalid or expired token" and nothing else.
C2_OneGenericAuthError ==
    (LastHasBearer /\ FailureCauses(last.auth.tok, last.at) # {})
    => last.resp = GenericAuthError

\* A correctly signed, unexpired token without a sub claim got the generic 401.
C2_Witness ==
    /\ LastHasBearer
    /\ FailureCauses(last.auth.tok, last.at) = {"no sub"}
    /\ last.resp = GenericAuthError

-----------------------------------------------------------------------------
(* C4 *)

HashConfigured == settings.ADMIN_PASSWORD_HASH.kind \notin {"none", "empty"}

\* The rule C4 states for accepting credentials.
CredentialRule(username, password) ==
    /\ username = settings.ADMIN_USERNAME
    /\ \/ HashConfigured /\ verify_password(password, settings.ADMIN_PASSWORD_HASH)
       \/ ~HashConfigured /\ settings.ADMIN_PASSWORD_PLAIN.some
            /\ password = settings.ADMIN_PASSWORD_PLAIN.v

LastIsLogin == last.n > 0 /\ last.route = "POST /auth/login"

\* C4: authenticate_user accepts exactly the admin username with a password
\* that verifies against the configured hash, or, when no hash is configured,
\* equals the plaintext setting; with a hash configured the plaintext setting
\* is never consulted, and with neither configured nothing is accepted.
C4_AuthenticateUser ==
    /\ \A u \in Usernames, p \in Passwords :
          authenticate_user(u, p) = CredentialRule(u, p)
    /\ LastIsLogin =>
          /\ (last.resp.status = 200)
                = CredentialRule(last.req.username, last.req.password)
          /\ (HashConfigured
                /\ ~verify_password(last.req.password, settings.ADMIN_PASSWORD_HASH))
             => last.resp.status = 401
          /\ (~HashConfigured /\ ~settings.ADMIN_PASSWORD_PLAIN.some)
             => last.resp.status = 401

\* The admin logged in with the plaintext password while a hash is configured,
\* and was refused.
C4_Witness ==
    /\ LastIsLogin
    /\ HashConfigured
    /\ last.req.username = settings.ADMIN_USERNAME
    /\ settings.ADMIN_PASSWORD_PLAIN = Some(last.req.password)
    /\ last.resp.status = 401

-----------------------------------------------------------------------------
(* C5 *)

\* C5: POST /auth/login answers 200 with an access_token and token_type
\* "bearer" exactly when the credentials are the admin's, and 401 without a
\* token otherwise; a token it issues has the admin username as subject and is
\* accepted by a later protected request made before the token expires.
C5_Login ==
    /\ LastIsLogin =>
          IF CredentialRule(last.req.username, last.req.password)
          THEN /\ last.resp.status = 200
               /\ last.resp.body.token_type = "bearer"
               /\ last.resp.body.access_token.sub = settings.ADMIN_USERNAME
               /\ \E i \in issued : i.tok = last.resp.body.access_token
                                       /\ i.at = last.at /\ i.by = "login"
               /\ Guard(Bearer(last.resp.body.access_token), last.at)
                     = [ok |-> TRUE, value |-> settings.ADMIN_USERNAME]
          ELSE last.resp = [status |-> 401, detail |-> "Invalid credentials"]
    /\ \A i \in issued : i.by = "login" =>
          /\ i.tok.sub = settings.ADMIN_USERNAME
          /\ (LastHasBearer /\ last.auth.tok = i.tok
                /\ i.at <= last.at /\ last.at < ExpTick(i.tok))
             => LastAccepted(settings.ADMIN_USERNAME)

\* GET /status answered 200 to a token that an earlier login issued.
C5_Witness ==
    \E i \in issued :
        /\ i.by = "login"
        /\ last.n > 0 /\ last.route = "GET /status"
        /\ last.auth = Bearer(i.tok)
        /\ last.resp.status = 200

-----------------------------------------------------------------------------
(* C7 *)

LastIsDevToken == last.n > 0 /\ last.route = "POST /internal/dev-token"

C7_WitnessDisabled ==
    LastIsDevToken /\ ~settings.DASHBOARD_ENABLE_DEV /\ last.resp.status = 403

-----------------------------------------------------------------------------
(* C3 *)

\* Whether the credential of a request fails at time t: no header, or a
\* bearer token that fails verification.
AuthFails(auth, t) ==
    \/ ~auth.hdr
    \/ auth.scheme = "bearer" /\ FailureCauses(auth.tok, t) # {}

-----------------------------------------------------------------------------
(* C6 *)

\* Signature and expiry of a token at time t, and nothing else.
SignedAndFresh(tok, t) ==
    /\ tok.form = "jwt"
    /\ tok.sig = HS256(JWT_SECRET, tok.sub, tok.exp)
    /\ ~(tok.exp # NoExp /\ Expired(tok.exp, t))

\* C6: there is no revocation. No operation of the service changes whether an
\* issued token is accepted (only the clock can, by passing its expiry), and
\* at every moment an issued token is accepted exactly when its signature is
\* good and its expiry has not passed.
C6_NoRevocation ==
    [][\A i \in issued :
          /\ now' = now => (Guard(Bearer(i.tok), now).ok)'
                              = Guard(Bearer(i.tok), now).ok
          /\ (Guard(Bearer(i.tok), now).ok)' = SignedAndFresh(i.tok, now')]_vars

\* After a token was issued, a later request was served (a login or a dev
\* token that issued another token, a sync or a test run) and the first token
\* is still accepted.
C6_Witness ==
    \E i \in issued :
        /\ last.n > 1 /\ last.at >= i.at
        /\ last.resp.status = 200
        /\ \/ last.route \in {"POST /sync", "POST /qa/run-tests"}
           \/ /\ last.route \in {"POST /auth/login", "POST /internal/dev-token"}
              /\ last.resp.body.access_token # i.tok
        /\ Guard(Bearer(i.tok), now).ok

-----------------------------------------------------------------------------
(* C8 *)

HasSpaceOrSemicolon(t) == \E k \in 1..Len(t) : t[k] \in {" ", ";"}
HasWhitespaceOrSemicolon(t) == \E k \in 1..Len(t) : t[k] \in {" ", "\t", "\n", ";"}

LastIsSync == last.n > 0 /\ last.route = "POST /sync"

\* The last request was an authenticated POST /sync whose body is a list of
\* table names (with dry_run a boolean or omitted).
LastIsAuthedSyncOfList ==
    /\ LastIsSync
    /\ ~AuthFails(last.auth, last.at) /\ last.auth.scheme = "bearer"
    /\ last.req.tables.kind = "list"
    /\ last.req.dry_run.kind # "badtype"

\* C8: an authenticated POST /sync with a table name containing a space or a
\* semicolon is answered 400 and the engine is neither loaded nor called.
C8_MalformedNamesRejected ==
    (LastIsAuthedSyncOfList
        /\ \E k \in 1..Len(last.req.tables.items) :
              HasSpaceOrSemicolon(last.req.tables.items[k]))
    => last.resp.status = 400 /\ last.did = <<>>

\* A list with a good name and a name with a semicolon was answered 400.
C8_Witness ==
    /\ LastIsAuthedSyncOfList
    /\ last.req.tables.items = <<Name_kpi, Name_semi>>
    /\ last.resp.status = 400 /\ last.did = <<>>

-----------------------------------------------------------------------------
(* C9 *)

\* C9 as stated: every table name with any whitespace character (space, tab,
\* newline) or a semicolon is rejected with 400, and the error lists all of
\* them.
C9_AnyWhitespaceRejected ==
    (LastIsAuthedSyncOfList
        /\ \E k \in 1..Len(last.req.tables.items) :
              HasWhitespaceOrSemicolon(last.req.tables.items[k]))
    => /\ last.resp.status = 400
       /\ last.resp.detail.names
             = SelectSeq(last.req.tables.items, HasWhitespaceOrSemicolon)

\* C9 amended: every table name with a space character or a semicolon is
\* rejected with 400 and the error lists all of them, in request order; a
\* name whose only whitespace is a tab or the like is not rejected.
C9_SpaceOrSemicolonRejected ==
    LastIsAuthedSyncOfList =>
        IF \E k \in 1..Len(last.req.tables.items) :
              HasSpaceOrSemicolon(last.req.tables.items[k])
        THEN /\ last.resp.status = 400
             /\ last.resp.detail.names
                   = SelectSeq(last.req.tables.items, HasSpaceOrSemicolon)
        ELSE last.resp.status # 400

\* Two invalid names and a name with a tab: the error lists the two.
C9_Witness ==
    /\ LastIsAuthedSyncOfList
    /\ last.req.tables.items = <<Name_semi, Name_space>>
    /\ last.resp.status = 400
    /\ last.resp.detail.names = <<Name_semi, Name_space>>

\* A name with a tab went through to the engine.
C9_WitnessTab ==
    /\ LastIsAuthedSyncOfList
    /\ last.req.tables.items = <<Name_tab>>
    /\ last.resp.status = 200

-----------------------------------------------------------------------------
(* C10 *)

LastIsAuthedSyncOfEmptyList ==
    /\ LastIsSync
    /\ ~AuthFails(last.auth, last.at) /\ last.auth.scheme = "bearer"
    /\ last.req.tables = ListTables(<<>>)

\* C10 as stated: an authenticated POST /sync with "tables": [] fails with 400.
C10_EmptyListIs400 ==
    LastIsAuthedSyncOfEmptyList => last.resp.status = 400

\* C10 amended: an authenticated POST /sync with "tables": [] fails with 422,
\* the schema's validation error, and the engine is neither loaded nor called.
C10_EmptyListIs422 ==
    LastIsAuthedSyncOfEmptyList => last.resp.status = 422 /\ last.did = <<>>

\* An empty list with a valid dry_run was answered 422.
C10_Witness ==
    /\ LastIsAuthedSyncOfEmptyList
    /\ last.req.dry_run = DryBool(FALSE)
    /\ last.resp.status = 422

-----------------------------------------------------------------------------
(* C11 *)

LastIsAuthedSync ==
    /\ LastIsSync
    /\ ~AuthFails(last.auth, last.at) /\ last.auth.scheme = "bearer"

\* C11: an authenticated POST /sync whose tables field is null or absent
\* succeeds whatever the whitelist: the engine's sync_all_tables is called once,
\* with the empty list that the engine reads as all its tables, and the
\* response is {ok: true, tables: [], message: null}.
C11_NullMeansAllTables ==
    (LastIsAuthedSync /\ last.req.tables.kind = "null"
        /\ last.req.dry_run.kind # "badtype")
    => /\ last.resp.status = 200
       /\ last.resp.body = [ok |-> TRUE, tables |-> <<>>, message |-> None]
       /\ Len(last.did) = 2
       /\ last.did[1].call = "_load_sync_engine"
       /\ last.did[2].call = "sync_all_tables"
       /\ last.did[2].specific_tables = <<>>
       /\ last.did[2].dry_run = last.req.dry_run.v
       /\ last.did[2].worked_on = AllTables

\* A request without a table list succeeded under a non-empty whitelist.
C11_Witness ==
    /\ LastIsAuthedSync /\ last.req.tables.kind = "null"
    /\ settings.ALLOWED_TABLES # {}
    /\ last.resp.status = 200
    /\ last.did[2].worked_on = AllTables

-----------------------------------------------------------------------------
(* C12 *)

WellFormed(t) == ~HasSpaceOrSemicolon(t)

\* The last request was an authenticated POST /sync of a non-empty list of
\* well-formed names.
LastIsAuthedSyncOfGoodNames ==
    /\ LastIsAuthedSyncOfList
    /\ last.req.tables.items # <<>>
    /\ \A k \in 1..Len(last.req.tables.items) : WellFormed(last.req.tables.items[k])

\* C12: a request for well-formed table names is answered 403 exactly when
\* ALLOWED_TABLES is non-empty and one of the names is not a member; so with an
\* empty whitelist no name is rejected, and neither is a list of members. A 403
\* leaves the engine alone.
C12_Whitelist ==
    LastIsAuthedSyncOfGoodNames =>
        /\ (last.resp.status = 403)
              = (/\ settings.ALLOWED_TABLES # {}
                 /\ \E k \in 1..Len(last.req.tables.items) :
                       last.req.tables.items[k] \notin settings.ALLOWED_TABLES)
        /\ last.resp.status \in {200, 403}
        /\ last.resp.status = 403 => last.did = <<>>

\* A whitelisted name followed by one that is not: 403.
C12_Witness ==
    /\ LastIsAuthedSyncOfGoodNames
    /\ settings.ALLOWED_TABLES = {Name_kpi}
    /\ last.req.tables.items = <<Name_kpi, Name_tab>>
    /\ last.resp.status = 403

\* The same list under the whitelist that has both names: accepted.
C12_WitnessMembers ==
    /\ LastIsAuthedSyncOfGoodNames
    /\ settings.ALLOWED_TABLES = {Name_kpi, Name_tab}
    /\ last.req.tables.items = <<Name_kpi, Name_tab>>
    /\ last.resp.status = 200

-----------------------------------------------------------------------------
(* C13 *)

\* The status the stages of POST /sync give a body, taken in their order:
\* the schema (types, empty list), the names, the whitelist, the engine call.
StagedStatus(body, allowed) ==
    IF \/ body.tables.kind = "badtype" \/ body.dry_run.kind = "badtype"
       \/ body.tables = ListTables(<<>>)
    THEN 422
    ELSE IF \E k \in 1..Len(body.tables.items) :
               HasSpaceOrSemicolon(body.tables.items[k])
    THEN 400
    ELSE IF allowed # {}
              /\ \E k \in 1..Len(body.tables.items) : body.tables.items[k] \notin allowed
    THEN 403
    ELSE 200

\* C13: the stages of an authenticated POST /sync apply in a fixed order
\* (schema and empty list, malformed names, whitelist, engine call) and the
\* first stage that fails gives the response; a request with a malformed name
\* and a name outside a non-empty whitelist is answered 400, never 403; the
\* engine is called only when no stage failed.
C13_PipelineOrder ==
    LastIsAuthedSync =>
        /\ last.resp.status = StagedStatus(last.req, settings.ALLOWED_TABLES)
        /\ (last.did # <<>>) = (last.resp.status = 200)

\* A malformed name that is also outside the whitelist, next to a name that is
\* outside the whitelist only: 400.
C13_Witness ==
    /\ LastIsAuthedSync
    /\ settings.ALLOWED_TABLES = {Name_kpi}
    /\ last.req.tables = ListTables(<<Name_tab, Name_semi>>)
    /\ last.req.dry_run.kind # "badtype"
    /\ last.resp.status = 400

-----------------------------------------------------------------------------
(* C14 *)

\* A step that serves an authenticated request on `route`.
ServesAuthed(route) ==
    /\ last'.n # last.n /\ last'.route = route
    /\ Guard(last'.auth, now).ok

\* A fresh import of sync_engine would fail now, and nothing is cached.
ImportFails == ~sysModules /\ importError # ""

\* What C14 says an authenticated request gets when the import fails: the
\* loader returns the fallback handle instead of raising, GET /status answers
\* 200 with the fallback report naming the exception's class, and the
\* fallback's sync_all_tables does nothing.
FallbackServed ==
    /\ ServesAuthed("GET /status")
       => /\ last'.did[1].engine = "_Fallback"
          /\ last'.resp.status = 200
          /\ last'.resp.body
                = [sqlserver |-> FALSE, mysql |-> FALSE, configured_tables |-> 0,
                   enabled_tables |-> 0,
                   system_health |-> <<"fallback: ", importError>>]
    /\ (ServesAuthed("POST /sync") /\ last'.did # <<>>)
       => /\ last'.did[2].engine = "_Fallback"
          /\ last'.did[2].worked_on = <<>> /\ last'.did[2].raised = ""
          /\ last'.resp.status = 200

\* C14 as stated: _load_sync_engine never raises; whenever the import fails
\* with any exception the fallback handle is returned, and GET /status still
\* answers 200.
C14_FallbackOnAnyException ==
    [][ImportFails => FallbackServed]_vars

\* C14 amended: whenever the import fails with an exception that derives from
\* Exception, _load_sync_engine does not raise and returns the fallback handle
\* (all systems down, system_health "fallback: " + class name, a sync_all_tables
\* that does nothing), and GET /status still answers 200.
C14_FallbackOnException ==
    [][(ImportFails /\ importError \notin BaseOnlyExceptions)
        => FallbackServed]_vars

\* GET /status answered 200 with the fallback report of a SyntaxError.
C14_Witness ==
    /\ last.n > 0 /\ last.route = "GET /status"
    /\ last.resp.status = 200
    /\ last.resp.body.system_health = <<"fallback: ", "SyntaxError">>
    /\ ~last.resp.body.sqlserver /\ ~last.resp.body.mysql

\* POST /sync went to the fallback, which did nothing.
C14_WitnessSync ==
    /\ LastIsSync /\ last.resp.status = 200
    /\ last.did[2].engine = "_Fallback"
    /\ last.did[2].specific_tables = <<Name_kpi>>
    /\ last.did[2].worked_on = <<>>

-----------------------------------------------------------------------------
(* C15 *)

\* C15: the engine handle is resolved afresh on every request, so the next
\* GET /status shows the engine's availability as it is now: the fallback
\* report if the engine, loaded by an earlier request, has become unloadable,
\* and the engine's own report if it was unloadable and has become loadable.
C15_FreshOnEveryRequest ==
    [][ServesAuthed("GET /status")
        => /\ (sysModules /\ importError # "")
                 => last'.resp.body = FallbackStatus(importError)
           /\ (~sysModules /\ importError = "")
                 => last'.resp.body = MockStatus]_vars

-----------------------------------------------------------------------------
(* C17 *)

\* C17: when the loaded engine's sync_all_tables raises during an
\* authenticated, validated POST /sync, the exception is not caught: the
\* request ends as the generic 500 and not as {ok: true, ...}.
C17_EngineExceptionPropagates ==
    (LastIsAuthedSync /\ Len(last.did) = 2 /\ last.did[2].raised # "")
    => /\ last.resp.status = 500
       /\ last.resp.detail = "Internal Server Error"
       /\ last.did[2].engine = "sync_engine"

\* The engine raised RuntimeError on a valid request for one table.
C17_Witness ==
    /\ LastIsAuthedSync
    /\ last.req.tables = ListTables(<<Name_kpi>>)
    /\ Len(last.did) = 2 /\ last.did[2].raised = "RuntimeError"
    /\ last.resp.status = 500

-----------------------------------------------------------------------------
(* C16 *)

\* C16: the loader's change of the module search path is idempotent, also
\* when requests are served concurrently: the path is the initial one, or the
\* initial one with "<home>/src" put in front if it was absent, so the entry
\* never occurs twice; and once a call has completed it occurs exactly once.
C16_PathInsertIdempotent ==
    /\ sysPath \in {FreshPath, ListedPath, <<SrcEntry>> \o FreshPath}
    /\ Occurrences(sysPath, SrcEntry) <= 1
    /\ (last.n > 0 /\ last.did # <<>>) => Occurrences(sysPath, SrcEntry) = 1

-----------------------------------------------------------------------------
(* C18 *)

Discoverable(files) == files \cap RunnerPaths # {}

\* The AI runner command for the files that exist: as a module if a runner is
\* found under a tools path, else as a script at the path found.
AiCmdFor(files) ==
    IF "/app/tools/ai_test_runner.py" \in files \/ "tools/ai_test_runner.py" \in files
    THEN AiModuleCmd
    ELSE IF "ai_test_runner.py" \in files
    THEN AiScriptCmd("ai_test_runner.py")
    ELSE AiScriptCmd("/app/ai_test_runner.py")

\* The last request was a test run that passed the guard.
LastIsTestRun ==
    /\ last.n > 0
    /\ last.route \in {"POST /qa/run-tests", "POST /qa/run-tests/stream"}
    /\ last.resp.status = 200

\* C18: _choose_cmd gives the plain coverage-test command for mode 'pytest'
\* whether or not a runner is discoverable; for mode 'ai' the AI runner
\* command if one is discoverable and else the plain command; for mode 'auto'
\* the command of 'ai' when one is discoverable and that of 'pytest' when not.
\* The command a test run spawns is the one so chosen for its resolved mode.
C18_ChooseCmd ==
    /\ _choose_cmd("pytest", runnerFiles) = PytestCmd
    /\ Discoverable(runnerFiles)
       => /\ _choose_cmd("ai", runnerFiles) = AiCmdFor(runnerFiles)
          /\ _choose_cmd("ai", runnerFiles) # PytestCmd
          /\ _choose_cmd("auto", runnerFiles) = _choose_cmd("ai", runnerFiles)
    /\ ~Discoverable(runnerFiles)
       => /\ _choose_cmd("ai", runnerFiles) = PytestCmd
          /\ _choose_cmd("auto", runnerFiles) = _choose_cmd("pytest", runnerFiles)
    /\ LastIsTestRun
       => last.did[1].cmd
             = IF last.did[1].mode = "pytest" \/ ~Discoverable(runnerFiles)
               THEN PytestCmd
               ELSE AiCmdFor(runnerFiles)

\* A run asked for mode 'ai' with no runner anywhere and got the plain command.
C18_Witness ==
    /\ LastIsTestRun /\ last.req.mode = "ai" /\ last.did[1].mode = "ai"
    /\ runnerFiles = {}
    /\ last.did[1].cmd = PytestCmd

\* A run in mode 'pytest' got the plain command although a runner exists; and
\* a script runner is run by its path when no tools runner exists.
C18_WitnessPytest ==
    /\ LastIsTestRun /\ last.did[1].mode = "pytest"
    /\ runnerFiles = {"/app/ai_test_runner.py"}
    /\ last.did[1].cmd = PytestCmd
    /\ _choose_cmd("auto", runnerFiles) = AiScriptCmd("/app/ai_test_runner.py")

-----------------------------------------------------------------------------
(* C19 *)

\* The mode C19 gives a request with query mode q and a body whose with_ai,
\* if present, is a boolean.
OverriddenMode(q, body) ==
    IF q = "auto" /\ body.some
    THEN (IF body.v = JBool(TRUE) THEN "ai" ELSE "pytest")
    ELSE q

C19_WitnessStream ==
    /\ LastIsTestRun /\ last.route = "POST /qa/run-tests/stream"
    /\ last.req.mode = "auto" /\ last.req.body = WithAi(JBool(FALSE))
    /\ Discoverable(runnerFiles)
    /\ last.did[1].cmd = PytestCmd

-----------------------------------------------------------------------------
(* C20 *)

Spawns(did) == {i \in 1..Len(did) : did[i].call = "subprocess.run"}
Reads(did) == {i \in 1..Len(did) : did[i].call = "_read_coverage_summary"}

\* C20: a buffered test run spawns exactly one process and reports its failure
\* as data: whatever the exit code, the request is answered 200 with that exit
\* code as returncode and with the captured stdout followed by the captured
\* stderr as output; the coverage summary in the result is read after the
\* process has exited, so it is that of the report the process left.
C20_BufferedRun ==
    [][ServesAuthed("POST /qa/run-tests")
        => /\ last'.resp.status = 200
           /\ Cardinality(Spawns(last'.did)) = 1
           /\ \A i \in Spawns(last'.did) :
                 /\ last'.resp.body.returncode = last'.did[i].exit
                 /\ last'.resp.body.output = last'.did[i].stdout \o last'.did[i].stderr
                 /\ last'.resp.body.resolved_cmd = last'.did[i].cmd
                 /\ \A j \in Reads(last'.did) : i < j
           /\ Cardinality(Reads(last'.did)) = 1
           /\ last'.resp.body.coverage = _read_coverage_summary(covXml')
           /\ last'.resp.body.htmlcov = htmlcovExists']_vars

\* The first request ever was a test run whose process was killed (exit -9)
\* after writing its report and printing to both streams: 200, with the exit
\* code, both outputs in order, and the coverage of the new report.
C20_Witness ==
    /\ last.n = 1 /\ last.route = "POST /qa/run-tests"
    /\ last.resp.status = 200
    /\ last.resp.body.returncode = -9
    /\ last.resp.body.output = <<"out", "err">>
    /\ last.resp.body.coverage.ok

-----------------------------------------------------------------------------
(* C21 *)

\* The states of a streamed run: Idle until the process is spawned, Running
\* until the process exits, Completed from then on.
StreamState(s) ==
    IF s.pc = "none" THEN "Idle"
    ELSE IF s.exited THEN "Completed"
    ELSE "Running"

IsPrefix(a, b) == Len(a) <= Len(b) /\ \A i \in 1..Len(a) : a[i] = b[i]

\* The generator has stopped, by returning or by being cancelled.
Ended(s) == s.pc \in {"returned", "cancelled"}

\* What was forwarded is, in order, the beginning of what the process wrote.
ForwardedInOrder == IsPrefix(stream.sent, stream.produced)

\* Idle -> Running -> Completed, never backwards, and nothing forwarded is
\* taken back.
LinearStep ==
    /\ StreamState(stream) = "Idle" => StreamState(stream') \in {"Idle", "Running"}
    /\ StreamState(stream) = "Running"
          => StreamState(stream') \in {"Running", "Completed"}
    /\ StreamState(stream) = "Completed" => StreamState(stream') = "Completed"
    /\ IsPrefix(stream.sent, stream'.sent)

\* _mount_htmlcov() is called only once the process has exited and every line
\* it wrote has been forwarded.
PublishComesLast ==
    stream'.published /\ ~stream.published
        => stream.exited /\ stream.sent = stream.produced

C21_WitnessAfterExit ==
    /\ stream.exited
    /\ stream.pc = "async for"
    /\ Len(stream.sent) = 1
    /\ Len(stream.produced) = 2

-----------------------------------------------------------------------------
(* C22 *)

\* This step serves GET /qa/coverage/summary to an authenticated caller.
ServesSummary ==
    /\ last'.n = last.n + 1
    /\ last'.route = "GET /qa/coverage/summary"
    /\ last'.resp.status = 200

Unavailable == [ok |-> FALSE, percent |-> NoPercent]

\* Twice the distance between a percentage in hundredths and a line rate
\* times 100, counted in 1/RateScale of a hundredth.
OffBy(hundredths, rate) ==
    LET d == hundredths * RateScale - rate * 100 * 100
    IN  IF d < 0 THEN 0 - 2 * d ELSE 2 * d

\* C22: the summary is computed from coverage.xml as it is when the request
\* is served. ok is true exactly when percent is not null; a missing file, an
\* unparseable file and a non-numeric line-rate give {ok: false, percent:
\* null}; any other file gives ok true with the line rate times 100 rounded to
\* the nearest hundredth (0 when the attribute is absent).
C22_CoverageSummary ==
    [][ServesSummary =>
          LET summary == last'.resp.body
              xml == covXml
          IN  /\ summary.ok <=> summary.percent.some
              /\ xml.kind \in {"missing", "unparseable", "non-numeric line-rate"}
                    => summary = Unavailable
              /\ xml.kind \in {"report", "no line-rate"}
                    => /\ summary.ok
                       /\ OffBy(summary.percent.v, xml.rate) <= RateScale
                       /\ summary.percent.v \in 0..(100 * 100)]_vars

\* Second request: a report that appeared after start-up is in the answer,
\* rounded to two decimals.
C22_Witness ==
    /\ last.n = 2
    /\ last.route = "GET /qa/coverage/summary"
    /\ last.resp.status = 200
    /\ last.resp.body = [ok |-> TRUE, percent |-> Percent(3333)]
    /\ covXml = Report(33333)

\* Second request: the report is gone or damaged and the answer is
\* "unavailable".
C22_WitnessUnavailable ==
    /\ last.n = 2
    /\ last.route = "GET /qa/coverage/summary"
    /\ last.resp.status = 200
    /\ last.resp.body = Unavailable
    /\ covXml = NonNumericRate

-----------------------------------------------------------------------------
(* C23 *)

\* The answers that reject a POST /sync: failed authentication, the schema,
\* a malformed name, the whitelist.
RejectionStatuses == {401, 422, 400, 403}

EngineCalls(did) == {i \in 1..Len(did) : did[i].call = "sync_all_tables"}
EngineLoads(did) == {i \in 1..Len(did) : did[i].call = "_load_sync_engine"}

\* The dry_run a request asks for: true when the field is omitted.
RequestedDryRun(body) == IF body.dry_run.kind = "omitted" THEN TRUE ELSE body.dry_run.v

\* C23: a POST /sync that is rejected (401, 422, 400, 403) neither loads nor
\* calls the engine, and an empty list is always rejected; a POST /sync that
\* is not rejected calls sync_all_tables exactly once, with the requested
\* tables in the requested order and the requested dry_run (true when
\* omitted), and the 200 response echoes those tables.
C23_InvokedIffAccepted ==
    LastIsSync =>
        LET did == last.did
            rejected == last.resp.status \in RejectionStatuses
        IN  /\ rejected <=> EngineCalls(did) = {}
            /\ rejected => EngineLoads(did) = {}
            /\ last.req.tables = ListTables(<<>>) => rejected
            /\ ~rejected =>
                  /\ Cardinality(EngineCalls(did)) = 1
                  /\ Cardinality(EngineLoads(did)) = 1
                  /\ \A i \in EngineCalls(did) :
                        /\ did[i].specific_tables = last.req.tables.items
                        /\ did[i].dry_run = RequestedDryRun(last.req)
                  /\ last.resp.status = 200
                  /\ last.resp.body.ok
                  /\ last.resp.body.tables = last.req.tables.items

\* Two tables asked for in an order the engine would not choose, dry_run
\* false: one engine call with exactly that.
C23_Witness ==
    /\ LastIsSync
    /\ last.req.tables = ListTables(<<Name_tab, Name_kpi>>)
    /\ last.req.dry_run = DryBool(FALSE)
    /\ last.resp.status = 200
    /\ Cardinality(EngineCalls(last.did)) = 1
    /\ last.did[2].dry_run = FALSE

\* An authenticated request with the empty list: rejected, engine untouched.
C23_WitnessEmptyList ==
    /\ LastIsAuthedSync
    /\ last.req.tables = ListTables(<<>>)
    /\ last.req.dry_run = DryOmitted
    /\ last.resp.status = 422
    /\ last.did = <<>>

\* dry_run omitted: the engine is called with dry_run true.
C23_WitnessOmitted ==
    /\ LastIsSync
    /\ last.req.dry_run = DryOmitted
    /\ last.req.tables = NullTables
    /\ last.resp.status = 200
    /\ last.did[2].dry_run

-----------------------------------------------------------------------------
(* C24 *)

\* This step serves POST /qa/coverage/refresh to an authenticated caller.
ServesRefresh ==
    /\ last'.n = last.n + 1
    /\ last'.route = "POST /qa/coverage/refresh"
    /\ last'.resp.status = 200

\* C24: _mount_htmlcov is idempotent on the application's routes. Whatever
\* calls it (start-up, POST /qa/coverage/refresh, the end of a buffered or a
\* streamed test run), there is at most one mount at /htmlcov, a call made
\* when one exists changes nothing, and POST /qa/coverage/refresh answers ok
\* exactly when the htmlcov directory exists.
C24_MountIdempotent ==
    [][/\ mounts' <= 1
       /\ mounts >= 1 => mounts' = mounts
       /\ ServesRefresh => (last'.resp.body.ok <=> htmlcovExists)]_vars

-----------------------------------------------------------------------------
(* C25 *)

\* This step completes an iteration of the loop.
IterationEnds ==
    /\ aiRun.pc = "run_pytest_coverage"
    /\ aiRun'.pc \in {"for", "report"}

\* The iteration this step completes had no pytest failure and no
\* anti-pattern, and its coverage is not above the best reached before it.
CleanWithoutGain ==
    /\ IterationEnds
    /\ ~aiRun'.critique.pytest_failures
    /\ ~aiRun'.critique.anti_patterns
    /\ aiRun'.afters[Len(aiRun'.afters)] <= aiRun.best

\* C25: an iteration with no pytest failure, no anti-pattern and no gain in
\* coverage over the best so far is the last one: the loop is left, and
\* call_llm is not called again.
C25_StopsWithoutGain ==
    [][/\ CleanWithoutGain => aiRun'.pc = "report"
       /\ aiRun.pc \in {"report", "done"} => aiRun'.llm_calls = aiRun.llm_calls]_vars

-----------------------------------------------------------------------------
(* C26 *)

MaxOf(S) == CHOOSE x \in S : \A y \in S : y <= x
Range(q) == {q[i] : i \in 1..Len(q)}
AtMost(max_iters) == IF max_iters < 0 THEN 0 ELSE max_iters
Finished == aiRun.pc \in {"done", "raised"}

\* C26: the loop runs at most MAX_ITERS times (not at all when MAX_ITERS <= 0)
\* with one LLM call per iteration, the best coverage is never below the
\* coverage before the loop, what main reports as best is the maximum of the
\* coverage before and the coverage of every completed iteration, and a run
\* that was started ends.
C26_BoundedLoop ==
    /\ [](/\ aiRun.it <= AtMost(aiRun.MAX_ITERS)
          /\ aiRun.llm_calls <= aiRun.it
          /\ Len(aiRun.afters) <= aiRun.it
          /\ aiRun.best >= aiRun.before
          /\ aiRun.pc \in {"report", "done"}
                => aiRun.best = MaxOf({aiRun.before} \cup Range(aiRun.afters)))
    /\ (aiRun.pc # "start" ~> Finished)

\* Two iterations, the first one the best, and the report made.
C26_Witness ==
    /\ aiRun.pc = "done"
    /\ aiRun.it = 2
    /\ Len(aiRun.afters) = 2
    /\ aiRun.afters[2] < aiRun.afters[1]
    /\ aiRun.before < aiRun.afters[1]
    /\ aiRun.best = aiRun.afters[1]

\* MAX_ITERS = 0: the report is made without an iteration.
C26_WitnessNoIteration ==
    /\ aiRun.pc = "done"
    /\ aiRun.MAX_ITERS <= 0
    /\ aiRun.llm_calls = 0
    /\ aiRun.best = aiRun.before
    /\ aiRun.before > 0

====
